---------------------------- MODULE Spec2Model ----------------------------
(***************************************************************************)
(* A model of clipdrop's YouTube caption core (src/src/clipdrop/youtube.py):*)
(* the caption selector, the caption listing, the on-disk cache of VTT    *)
(* files and video-info documents, the timeouts of the tool's runs, and    *)
(* the URL recogniser with its two regular-expression matchers.            *)
(*                                                                         *)
(* Strings are sequences of one-character strings, so that lower(),        *)
(* strip(), split('-') and comparison are computed and not assumed.        *)
(***************************************************************************)
EXTENDS Integers, Sequences, FiniteSets, TLC

VARIABLES
    sel,      \* one call of select_caption_track: its arguments, position, result
    lc,       \* one call of list_captions: its environment, position, outcome
    vtt,      \* the VTT files of one video's cache directory: lang_code -> content
    info,     \* the content of that directory's info.json
    dirExists,\* whether the video's cache directory exists
    now,      \* the wall clock, in time units
    last,     \* the last completed call of download_vtt / get_video_info
    fetched,  \* the document the latest successful fetch of get_video_info returned
    rec,      \* one URL string and what the recogniser makes of it
    race,     \* two concurrent get_video_info calls and the text of info.json
    wr,       \* the target of files.write_text and the last call on it
    san,      \* a call of sanitize_filename: the title and the result
    pipe      \* transcribe_from_clipboard, its helper process and their pipes

vars == <<sel, lc, vtt, info, dirExists, now, last, fetched, rec, race, wr, san,
          pipe>>

---------------------------------------------------------------------------
(* Characters and strings                                                  *)

UpperCase == <<"A","B","C","D","E","F","G","H","I","J","K","L","M",
               "N","O","P","Q","R","S","T","U","V","W","X","Y","Z">>
LowerCase == <<"a","b","c","d","e","f","g","h","i","j","k","l","m",
               "n","o","p","q","r","s","t","u","v","w","x","y","z">>

\* The characters of the model in code-point order (str comparison).
CodePointOrder == <<" ", "(", ")", "-">> \o UpperCase \o <<"_">> \o LowerCase

Ord(c) == CHOOSE i \in 1..Len(CodePointOrder) : CodePointOrder[i] = c

LowerChar(c) ==
    IF \E i \in 1..Len(UpperCase) : UpperCase[i] = c
    THEN LowerCase[CHOOSE i \in 1..Len(UpperCase) : UpperCase[i] = c]
    ELSE c

\* str.lower()
lower(s) == [i \in 1..Len(s) |-> LowerChar(s[i])]

IsSpace(c) == c = " "

\* str.strip(): leading and trailing whitespace removed
strip(s) ==
    IF \A i \in 1..Len(s) : IsSpace(s[i]) THEN <<>>
    ELSE LET first == CHOOSE i \in 1..Len(s) :
                        /\ ~IsSpace(s[i])
                        /\ \A j \in 1..(i-1) : IsSpace(s[j])
             final == CHOOSE i \in 1..Len(s) :
                        /\ ~IsSpace(s[i])
                        /\ \A j \in (i+1)..Len(s) : IsSpace(s[j])
         IN SubSeq(s, first, final)

\* s.split('-')[0]: the part before the first hyphen, the whole string if none
split_first(s) ==
    IF \E i \in 1..Len(s) : s[i] = "-"
    THEN LET h == CHOOSE i \in 1..Len(s) :
                    /\ s[i] = "-"
                    /\ \A j \in 1..(i-1) : s[j] # "-"
         IN SubSeq(s, 1, h - 1)
    ELSE s

\* a < b for str: lexicographic by code point, a proper prefix is smaller
RECURSIVE StrLess(_, _)
StrLess(a, b) ==
    IF b = <<>> THEN FALSE
    ELSE IF a = <<>> THEN TRUE
    ELSE IF Ord(Head(a)) # Ord(Head(b)) THEN Ord(Head(a)) < Ord(Head(b))
    ELSE StrLess(Tail(a), Tail(b))

\* needle in haystack, for str
Contains(haystack, needle) ==
    \E i \in 0..(Len(haystack) - Len(needle)) :
        SubSeq(haystack, i + 1, i + Len(needle)) = needle

---------------------------------------------------------------------------
(* Optional values                                                         *)

None == [some |-> FALSE]
Some(v) == [some |-> TRUE, val |-> v]

---------------------------------------------------------------------------
(* select_caption_track                                                    *)

\* A caption tuple (lang_code, name, is_auto_generated).
Caption(code, name, auto) == [code |-> code, name |-> name, auto |-> auto]

\* youtube.py:257-272: the score of one caption
caption_score(caption, preferred_lang, preferred_base) ==
    LET normalized_code == lower(caption.code)
        base_code == split_first(normalized_code)
        score == IF normalized_code = preferred_lang THEN 100
                 ELSE IF base_code = preferred_base THEN 50
                 ELSE 1
    IN IF ~caption.auto THEN score + 10 ELSE score

\* One step of list.sort(key=score, reverse=True): the sort is stable, so an
\* element goes after every element whose score is at least its own.
RECURSIVE InsertUnstable(_, _)
InsertUnstable(sorted, x) ==
    IF sorted = <<>> THEN <<x>>
    ELSE IF Head(sorted).score > x.score
         THEN <<Head(sorted)>> \o InsertUnstable(Tail(sorted), x)
         ELSE <<x>> \o sorted

RECURSIVE InsertByScore(_, _)
InsertByScore(sorted, x) ==
    IF sorted = <<>> THEN <<x>>
    ELSE IF Head(sorted).score >= x.score
         THEN <<Head(sorted)>> \o InsertByScore(Tail(sorted), x)
         ELSE <<x>> \o sorted

RECURSIVE sort_by_score(_)
sort_by_score(scored) ==
    IF scored = <<>> THEN <<>>
    ELSE InsertByScore(sort_by_score(SubSeq(scored, 1, Len(scored) - 1)),
                       scored[Len(scored)])

FirstAlways(captions) == captions[1]

\* youtube.py:235-242: no preference
first_manual_or_first(captions) ==
    IF \E i \in 1..Len(captions) : ~captions[i].auto
    THEN captions[CHOOSE i \in 1..Len(captions) :
                    /\ ~captions[i].auto
                    /\ \A j \in 1..(i-1) : captions[j].auto]
    ELSE captions[1]

\* youtube.py:244-280: a preference is given
select_scored(captions, pref) ==
    LET preferred_lang == strip(lower(pref))
        preferred_base == split_first(preferred_lang)
        scored_captions ==
            [i \in 1..Len(captions) |->
                [score |-> caption_score(captions[i], preferred_lang, preferred_base),
                 caption |-> captions[i]]]
    IN sort_by_score(scored_captions)[1].caption

SelectNoFallback(captions, preferred_lang) ==
    IF captions = <<>> THEN None
    ELSE IF ~preferred_lang.some \/ preferred_lang.val = <<>>
    THEN Some(first_manual_or_first(captions))
    ELSE LET best == select_scored(captions, preferred_lang.val)
             p == strip(lower(preferred_lang.val))
         IN IF split_first(lower(best.code)) = split_first(p)
            THEN Some(best) ELSE None

\* youtube.py:210-280. preferred_lang is None or Some(string).
select_caption_track(captions, preferred_lang) ==
    IF captions = <<>> THEN None
    ELSE IF ~preferred_lang.some \/ preferred_lang.val = <<>>
    THEN Some(first_manual_or_first(captions))
    ELSE Some(select_scored(captions, preferred_lang.val))

\* Bounds and inputs for select_caption_track
MaxTracks == 3

SelCodes == { <<"e","n">>, <<"E","N">>, <<"e","n","-","U","S">>,
              <<"E","N","-","g","b">>, <<"e","s">> }
SelTracks == { Caption(c, <<"A">>, a) : c \in SelCodes, a \in BOOLEAN }
SelPrefs == { None, Some(<<>>), Some(<<" ">>), Some(<<"e","n">>),
              Some(<<" ","E","N","-","u","s"," ">>), Some(<<"e","n","-","G","B">>),
              Some(<<"f","r">>) }

SeqsUpTo(S, n) == UNION { [1..k -> S] : k \in 0..n }

SelInit ==
    /\ sel \in { [pc |-> "call", captions |-> cs, pref |-> p, result |-> None] :
                    cs \in SeqsUpTo(SelTracks, MaxTracks), p \in SelPrefs }
    /\ lc = [pc |-> "idle"]
    /\ vtt = <<>>
    /\ info = None
    /\ dirExists = FALSE
    /\ now = 0
    /\ last = None
    /\ fetched = None
    /\ pipe = [pc |-> "idle"]
    /\ san = [pc |-> "idle"]
    /\ wr = [pc |-> "idle"]
    /\ race = [pc |-> "idle"]
    /\ rec = [pc |-> "idle"]

Select ==
    /\ sel.pc = "call"
    /\ sel' = [sel EXCEPT !.pc = "done",
                          !.result = select_caption_track(sel.captions, sel.pref)]
    /\ UNCHANGED <<lc, vtt, info, dirExists, now, last, fetched, rec, race, wr, san, pipe>>

SelNext == Select

SpecSelect == SelInit /\ [][SelNext]_vars

---------------------------------------------------------------------------
(* list_captions                                                           *)

\* What a call ends with: a returned value, or a raised exception named by
\* its class. runs counts the subprocess.run invocations of the call.
Return(v, n) == [kind |-> "return", value |-> v, runs |-> n]
Raise(e, n) == [kind |-> "raise", exc |-> e, runs |-> n]

\* JSON values the tool can print for a subtitle map. A dict is the sequence
\* of its items in insertion order (keys distinct); every other JSON value
\* (list, number, string, boolean) is J_Other.
J_Dict(items) == [t |-> "dict", items |-> items]
J_Other == [t |-> "other"]
Item(key, val) == [key |-> key, val |-> val]

\* The value of one language in a subtitle map ("formats").
F_Falsy == [f |-> "falsy"]                 \* [], null, 0, ""
F_NotList == [f |-> "notlist"]             \* a non-empty dict or string, a number
F_List(first) == [f |-> "list", first |-> first]
\* The first element of a non-empty formats list.
E_Named(name) == [e |-> "named", name |-> name]   \* {"name": "<str>", ...}
E_NamedNonStr == [e |-> "named_nonstr"]           \* {"name": null, ...}
E_NoName == [e |-> "noname"]                      \* a dict without "name"
E_NotDict == [e |-> "notdict"]                    \* a string, a number, a list

\* The name of a track whose "name" is present and not a str.
NonStrName == <<"#">>

\* One line of the tool's stdout, by what json.loads makes of it.
T_Empty == [txt |-> "empty"]               \* ""
T_Null == [txt |-> "null"]                 \* exactly "null"
T_Invalid == [txt |-> "invalid"]           \* not JSON
T_Json(v) == [txt |-> "json", val |-> v]

\* result.stdout.strip().split('\n'): blank lines at both ends go, and the
\* empty string splits into one empty line.
RECURSIVE DropLeadingEmpty(_)
DropLeadingEmpty(ls) ==
    IF ls # <<>> /\ Head(ls) = T_Empty THEN DropLeadingEmpty(Tail(ls)) ELSE ls

RECURSIVE DropTrailingEmpty(_)
DropTrailingEmpty(ls) ==
    IF ls # <<>> /\ ls[Len(ls)] = T_Empty
    THEN DropTrailingEmpty(SubSeq(ls, 1, Len(ls) - 1)) ELSE ls

strip_split(stdout) ==
    LET ls == DropTrailingEmpty(DropLeadingEmpty(stdout))
    IN IF ls = <<>> THEN <<T_Empty>> ELSE ls

\* json.loads(line) if line and line != 'null' else {}   (youtube.py:164-165)
\* ok is FALSE where json.loads raises JSONDecodeError.
loads_or_empty(line) ==
    IF line.txt = "empty" \/ line.txt = "null" THEN [ok |-> TRUE, val |-> J_Dict(<<>>)]
    ELSE IF line.txt = "invalid" THEN [ok |-> FALSE]
    ELSE [ok |-> TRUE, val |-> line.val]

\* youtube.py:163-168: both maps, or two empty maps when json.loads raises
\* JSONDecodeError on either line
parse_maps(lines) ==
    LET m == loads_or_empty(lines[1])
        a == loads_or_empty(lines[2])
    IN IF m.ok /\ a.ok THEN [manual_subs |-> m.val, auto_subs |-> a.val]
       ELSE [manual_subs |-> J_Dict(<<>>), auto_subs |-> J_Dict(<<>>)]

HasKey(dict, key) == \E i \in 1..Len(dict.items) : dict.items[i].key = key

\* youtube.py:175-178: the name of a manual track; err where .get is called
\* on something that is not a dict
manual_name(lang_code, formats) ==
    IF formats.f = "list"
    THEN CASE formats.first.e = "named" -> [err |-> FALSE, name |-> formats.first.name]
           [] formats.first.e = "named_nonstr" -> [err |-> FALSE, name |-> NonStrName]
           [] formats.first.e = "noname" -> [err |-> FALSE, name |-> lang_code]
           [] OTHER -> [err |-> TRUE]
    ELSE [err |-> FALSE, name |-> lang_code]

AutoMarker == <<"(","a","u","t","o","-","g","e","n","e","r","a","t","e","d",")">>
AutoSuffix == <<" ">> \o AutoMarker

AutoNameAlwaysAppends(lang_code, formats) ==
    IF formats.f = "list"
    THEN CASE formats.first.e = "named" ->
                [err |-> FALSE, name |-> formats.first.name \o AutoSuffix]
           [] formats.first.e = "noname" ->
                [err |-> FALSE, name |-> lang_code \o AutoSuffix]
           [] OTHER -> [err |-> TRUE]
    ELSE [err |-> FALSE, name |-> lang_code \o AutoSuffix]

\* youtube.py:185-191: the name of an automatic track; err where .get or
\* .lower is called on something that has no such method
auto_name(lang_code, formats) ==
    IF formats.f = "list"
    THEN CASE formats.first.e = "named" ->
                [err |-> FALSE,
                 name |-> IF ~Contains(lower(formats.first.name), AutoMarker)
                          THEN formats.first.name \o AutoSuffix
                          ELSE formats.first.name]
           [] formats.first.e = "noname" ->
                [err |-> FALSE,
                 name |-> IF ~Contains(lower(lang_code), AutoMarker)
                          THEN lang_code \o AutoSuffix
                          ELSE lang_code]
           [] OTHER -> [err |-> TRUE]
    ELSE [err |-> FALSE, name |-> lang_code \o AutoSuffix]

\* youtube.py:173-179: the loop over manual_subs.items()
RECURSIVE manual_tracks(_)
manual_tracks(items) ==
    IF items = <<>> THEN [err |-> FALSE, captions |-> <<>>]
    ELSE LET n == manual_name(Head(items).key, Head(items).val)
             rest == manual_tracks(Tail(items))
         IN IF n.err \/ rest.err THEN [err |-> TRUE]
            ELSE [err |-> FALSE,
                  captions |-> <<Caption(Head(items).key, n.name, FALSE)>>
                                 \o rest.captions]

AutoKeepsDuplicates(manual_subs, lang_code) == FALSE

\* youtube.py:184: if lang_code not in manual_subs
skip_auto(manual_subs, lang_code) == HasKey(manual_subs, lang_code)

\* youtube.py:182-192: the loop over auto_subs.items()
RECURSIVE auto_tracks(_, _)
auto_tracks(items, manual_subs) ==
    IF items = <<>> THEN [err |-> FALSE, captions |-> <<>>]
    ELSE IF skip_auto(manual_subs, Head(items).key)
         THEN auto_tracks(Tail(items), manual_subs)
         ELSE LET n == auto_name(Head(items).key, Head(items).val)
                  rest == auto_tracks(Tail(items), manual_subs)
              IN IF n.err \/ rest.err THEN [err |-> TRUE]
                 ELSE [err |-> FALSE,
                       captions |-> <<Caption(Head(items).key, n.name, TRUE)>>
                                      \o rest.captions]

\* captions.sort(key=lambda x: x[0]): stable, ascending by lang_code
RECURSIVE InsertByCode(_, _)
InsertByCode(sorted, x) ==
    IF sorted = <<>> THEN <<x>>
    ELSE IF StrLess(x.code, Head(sorted).code)
         THEN <<x>> \o sorted
         ELSE <<Head(sorted)>> \o InsertByCode(Tail(sorted), x)

KeepsInsertionOrder(captions) == captions

RECURSIVE sort_by_code(_)
sort_by_code(captions) ==
    IF captions = <<>> THEN <<>>
    ELSE InsertByCode(sort_by_code(SubSeq(captions, 1, Len(captions) - 1)),
                      captions[Len(captions)])

ReturnsEmptyListing(captions) == FALSE

\* youtube.py:194: if not captions
no_captions(captions) == captions = <<>>

ShortOutputAsYouTubeError == "YouTubeError"

\* youtube.py:159-160: the exception raised on fewer than two lines
short_output_error == "NoCaptionsError"

\* youtube.py:158-200: the tool exited with code 0
parse_listing(stdout) ==
    LET lines == strip_split(stdout)
    IN IF Len(lines) < 2 THEN Raise(short_output_error, 1)
       ELSE LET maps == parse_maps(lines)
            IN IF maps.manual_subs.t # "dict" THEN Raise("AttributeError", 1)
               ELSE LET m == manual_tracks(maps.manual_subs.items)
                    IN IF m.err THEN Raise("AttributeError", 1)
                       ELSE IF maps.auto_subs.t # "dict" THEN Raise("AttributeError", 1)
                       ELSE LET a == auto_tracks(maps.auto_subs.items, maps.manual_subs)
                            IN IF a.err THEN Raise("AttributeError", 1)
                               ELSE LET captions == m.captions \o a.captions
                                    IN IF no_captions(captions)
                                       THEN Raise("NoCaptionsError", 1)
                                       ELSE Return(sort_by_code(captions), 1)

\* What one subprocess.run of the tool can end with.
ToolMissing == [kind |-> "missing"]        \* FileNotFoundError: no executable
ToolTimeout == [kind |-> "timeout"]        \* subprocess.TimeoutExpired
ToolExit(rc, stdout) == [kind |-> "exit", rc |-> rc, stdout |-> stdout]

ListChecksToolFirst(url, installed, tool) ==
    IF ~installed THEN Raise("YTDLPNotFoundError", 0)
    ELSE IF ~url.valid THEN Raise("YouTubeURLError", 0)
    ELSE IF tool.kind = "exit" /\ tool.rc = 0 THEN parse_listing(tool.stdout)
    ELSE Raise("YouTubeError", 1)

\* youtube.py:108-207. url.valid is what validate_youtube_url(url) returns,
\* installed what check_ytdlp_installed() returns.
list_captions(url, installed, tool) ==
    IF ~url.valid THEN Raise("YouTubeURLError", 0)
    ELSE IF ~installed THEN Raise("YTDLPNotFoundError", 0)
    ELSE IF tool.kind = "missing" THEN Raise("YTDLPNotFoundError", 1)
    ELSE IF tool.kind = "timeout" THEN Raise("YouTubeError", 1)
    ELSE IF tool.rc # 0 THEN Raise("YouTubeError", 1)
    ELSE parse_listing(tool.stdout)

\* Bounds and inputs for list_captions
MaxEntries == 3

LcLangs == { <<"e","n">>, <<"e","s">>, <<"e","n","-","U","S">> }
LcNames == { <<"E","n">>,
             <<"E","n"," ","(","A","U","T","O","-","G","e","n","e","r","a","t","e","d",")">> }
\* A name that carries the marker twice, given to one language.
LcDoubledName == <<"E","s">> \o AutoSuffix \o AutoSuffix
LcFormats == { F_Falsy, F_NotList, F_List(E_NamedNonStr), F_List(E_NoName),
               F_List(E_NotDict) }
             \cup { F_List(E_Named(n)) : n \in LcNames }
LcItems == { Item(k, f) : k \in LcLangs, f \in LcFormats }
           \cup { Item(<<"e","s">>, F_List(E_Named(LcDoubledName))) }

DictsOfSize(k) ==
    { J_Dict(items) : items \in
        { d \in [1..k -> LcItems] :
            \A i, j \in 1..k : i # j => d[i].key # d[j].key } }

\* The lines that carry a dict of k items; for k = 0 also every line that
\* carries no dict at all.
TextsOfSize ==
    [k \in 0..MaxEntries |->
        { T_Json(d) : d \in DictsOfSize(k) }
        \cup (IF k = 0 THEN { T_Empty, T_Null, T_Invalid, T_Json(J_Other) } ELSE {})]

SizePairs(n) == { ab \in (0..n) \X (0..n) : ab[1] + ab[2] <= n }

\* What the tool prints on exit 0: one line, two lines, and two lines with
\* a blank line before or after them or a third line.
StdoutShapes == { "one", "two", "blank_before", "blank_after", "third" }
StdoutOf(shape, x, y) ==
    CASE shape = "one" -> <<x>>
      [] shape = "two" -> <<x, y>>
      [] shape = "blank_before" -> <<T_Empty, x, y>>
      [] shape = "blank_after" -> <<x, y, T_Empty>>
      [] OTHER -> <<x, y, T_Null>>

\* Tool outcomes that carry no subtitle map.
LcPlainTools == { ToolMissing, ToolTimeout, ToolExit(1, <<>>), ToolExit(0, <<>>) }

LcCall(valid, installed, tool) ==
    [pc |-> "call", url |-> [valid |-> valid], installed |-> installed,
     tool |-> tool, outcome |-> None]

LcInit ==
    /\ \E v \in BOOLEAN, i \in BOOLEAN :
         \/ \E t \in LcPlainTools : lc = LcCall(v, i, t)
         \/ /\ v /\ i
            /\ \E shape \in StdoutShapes :
               \E ab \in SizePairs(IF shape = "two" THEN MaxEntries ELSE 1) :
               \E x \in TextsOfSize[ab[1]], y \in TextsOfSize[ab[2]] :
                  /\ shape = "one" => y = T_Empty
                  /\ lc = LcCall(v, i, ToolExit(0, StdoutOf(shape, x, y)))
    /\ sel = [pc |-> "idle"]
    /\ vtt = <<>>
    /\ info = None
    /\ dirExists = FALSE
    /\ now = 0
    /\ last = None
    /\ fetched = None
    /\ pipe = [pc |-> "idle"]
    /\ san = [pc |-> "idle"]
    /\ wr = [pc |-> "idle"]
    /\ race = [pc |-> "idle"]
    /\ rec = [pc |-> "idle"]

ListCaptions ==
    /\ lc.pc = "call"
    /\ lc' = [lc EXCEPT !.pc = "done",
                        !.outcome = list_captions(lc.url, lc.installed, lc.tool)]
    /\ UNCHANGED <<sel, vtt, info, dirExists, now, last, fetched, rec, race, wr, san, pipe>>

LcNext == ListCaptions

SpecList == LcInit /\ [][LcNext]_vars

---------------------------------------------------------------------------
(* The cache directory of one video and download_vtt                       *)

\* A URL by what the recognizer makes of it: valid is the result of
\* validate_youtube_url(url), id the result of extract_video_id(url).
Url(valid, id) == [valid |-> valid, id |-> id]

\* A file that does not exist.
Absent == "absent"

\* The outcome of a cache operation: what the call ends with and the cache
\* it leaves.
Ends(out, files, doc, dir, clock) ==
    [out |-> out, vtt |-> files, info |-> doc, dir |-> dir, now |-> clock]

\* youtube.py:413-416: the "no subtitles" test on the tool's error output
\* (stderr.strip(), or "Unknown error" when stderr is empty)
UnknownError == <<"U","n","k","n","o","w","n"," ","e","r","r","o","r">>
mentions_subtitles(stderr) ==
    LET error_msg == IF stderr # <<>> THEN strip(stderr) ELSE UnknownError
    IN \/ Contains(lower(error_msg), <<"n","o"," ","s","u","b","t","i","t","l","e","s">>)
       \/ Contains(lower(error_msg), <<"s","u","b","t","i","t","l","e">>)

\* What one run of the subtitle download leaves on disk: the tool writes the
\* track under the requested code, or under the code's base language, or
\* writes nothing; it does not overwrite a subtitle file that is present.
ToolWrote(rc, stderr, wrote, content) ==
    [kind |-> "exit", rc |-> rc, stderr |-> stderr, wrote |-> wrote,
     content |-> content]

tool_writes(files, lang_code, tool) ==
    LET target == IF tool.wrote = "exact" THEN lang_code ELSE split_first(lang_code)
    IN IF tool.wrote = "none" \/ files[target] # Absent THEN files
       ELSE [files EXCEPT ![target] = tool.content]

NoRenameFallback(files, lang_code) == [ok |-> FALSE, files |-> files]

\* youtube.py:422-429: the file is not at the canonical path after the run
rename_fallback(files, lang_code) ==
    LET alt == split_first(lang_code)
    IN IF files[alt] # Absent
       THEN [ok |-> TRUE, files |-> [files EXCEPT ![lang_code] = files[alt],
                                                 ![alt] = Absent]]
       ELSE [ok |-> FALSE, files |-> files]

CacheIgnored(files, lang_code) == FALSE

\* youtube.py:381-384: vtt_path.exists()
vtt_cached(files, lang_code) == files[lang_code] # Absent

DownloadMakesDirFirst(url, lang_code, installed, tool, files, doc, dir, clock) ==
    IF ~url.valid \/ ~url.id.some
    THEN Ends(Raise("YouTubeURLError", 0), files, doc, TRUE, clock)
    ELSE IF ~installed
    THEN Ends(Raise("YTDLPNotFoundError", 0), files, doc, TRUE, clock)
    ELSE IF vtt_cached(files, lang_code)
    THEN Ends(Return(lang_code, 0), files, doc, TRUE, clock)
    ELSE Ends(Raise("YouTubeError", 1), files, doc, TRUE, clock)

\* youtube.py:339-438. The returned path is named by its language code.
download_vtt(url, lang_code, installed, tool, files, doc, dir, clock) ==
    IF ~url.valid \/ ~url.id.some
    THEN Ends(Raise("YouTubeURLError", 0), files, doc, dir, clock)
    ELSE IF ~installed
    THEN Ends(Raise("YTDLPNotFoundError", 0), files, doc, dir, clock)
    ELSE IF vtt_cached(files, lang_code)
    THEN Ends(Return(lang_code, 0), files, doc, TRUE, clock)
    ELSE IF tool.kind = "missing"
    THEN Ends(Raise("YTDLPNotFoundError", 1), files, doc, TRUE, clock)
    ELSE IF tool.kind = "timeout"
    THEN Ends(Raise("YouTubeError", 1), files, doc, TRUE, clock)
    ELSE IF tool.rc # 0
    THEN Ends(Raise(IF mentions_subtitles(tool.stderr)
                    THEN "NoCaptionsError" ELSE "YouTubeError", 1),
              files, doc, TRUE, clock)
    ELSE LET written == tool_writes(files, lang_code, tool)
         IN IF written[lang_code] # Absent
            THEN Ends(Return(lang_code, 1), written, doc, TRUE, clock)
            ELSE LET renamed == rename_fallback(written, lang_code)
                 IN IF renamed.ok
                    THEN Ends(Return(lang_code, 1), renamed.files, doc, TRUE, clock)
                    ELSE Ends(Raise("NoCaptionsError", 1), written, doc, TRUE, clock)

\* Inputs for the cache operations
VideoId == "dQw4w9WgXcQ"
Urls == { Url(FALSE, None), Url(TRUE, None), Url(TRUE, Some(VideoId)) }
VttLangs == { <<"e","n">>, <<"e","n","-","U","S">>, <<"e","n","-","G","B">>,
              <<"e","s">> }
VttContents == { "a", "b" }
StderrTexts == { <<>>, <<"N","o"," ","s","u","b","t","i","t","l","e","s">>,
                 <<" ","S","u","b","t","i","t","l","e"," ">>,
                 <<"g","o","n","e">>,
                 <<"s","u","b","t","i","t","l","e","s",":"," ","H","T","T","P"," ","4","2","9">> }
VttTools == { ToolMissing, ToolTimeout }
            \cup { ToolWrote(1, e, "none", "a") : e \in StderrTexts }
            \cup { ToolWrote(0, <<>>, "none", "a") }
            \cup { ToolWrote(0, <<>>, w, c) : w \in {"exact", "base"}, c \in VttContents }

\* The record of a completed call: its arguments and environment, the cache
\* before it, and what it ended with.
Called(op, url, lang_code, installed, tool, pre, at, out) ==
    [op |-> op, url |-> url, lang |-> lang_code, installed |-> installed,
     tool |-> tool, pre |-> pre, at |-> at, out |-> out]

\* A fresh cache: no directory, no file.
VttInit ==
    /\ vtt = [l \in VttLangs |-> Absent]
    /\ info = [k |-> "absent"]
    /\ dirExists = FALSE
    /\ now = 0
    /\ last = None
    /\ fetched = None
    /\ pipe = [pc |-> "idle"]
    /\ san = [pc |-> "idle"]
    /\ wr = [pc |-> "idle"]
    /\ race = [pc |-> "idle"]
    /\ rec = [pc |-> "idle"]
    /\ sel = [pc |-> "idle"]
    /\ lc = [pc |-> "idle"]

\* The tool is consulted only by a call that gets as far as starting it.
ToolsFor(url, installed) ==
    IF url.valid /\ url.id.some /\ installed THEN VttTools ELSE { ToolMissing }

DownloadVtt ==
    \E url \in Urls, lang_code \in VttLangs, installed \in BOOLEAN :
    \E tool \in ToolsFor(url, installed) :
        LET e == download_vtt(url, lang_code, installed, tool, vtt, info,
                              dirExists, now)
        IN /\ vtt' = e.vtt
           /\ dirExists' = e.dir
           /\ last' = Some(Called("download_vtt", url, lang_code, installed, tool,
                                  vtt, now, e.out))
           /\ UNCHANGED <<sel, lc, info, now, fetched, rec, race, wr, san, pipe>>

VttNext == DownloadVtt

SpecVtt == VttInit /\ [][VttNext]_vars

---------------------------------------------------------------------------
(* get_video_info and the info document                                    *)

\* Time is counted in units of half a day, so that timedelta.days (whole
\* days, rounded down) differs from the elapsed time.
UnitsPerDay == 2
CacheDays == 7

\* JSON scalars of the info document.
J_Str(x) == [t |-> "str", s |-> x]
J_Num(n) == [t |-> "num", n |-> n]
J_Null == [t |-> "null"]

\* The value of 'cached_at' by what datetime.fromisoformat makes of it.
At_Naive(t) == [c |-> "naive", t |-> t]    \* an ISO timestamp without UTC offset
At_Aware(t) == [c |-> "aware", t |-> t]    \* an ISO timestamp with a UTC offset
At_BadStr == [c |-> "badstr"]              \* a str that is no ISO timestamp
At_NonStr == [c |-> "nonstr"]              \* a number, null, a list
At_Missing == [c |-> "missing"]            \* the key is not in the object

\* datetime.now().isoformat()
isoformat(t) == At_Naive(t)

\* The content of info.json by what json.load makes of it.
D_Absent == [k |-> "absent"]               \* there is no info.json
D_Invalid == [k |-> "invalid"]             \* not JSON
D_List == [k |-> "list"]                   \* a JSON list without "cached_at"
D_Number == [k |-> "number"]               \* a JSON number, true, false, null
D_Object(cached_at, body) ==
    [k |-> "object", cached_at |-> cached_at, body |-> body]

\* timedelta.days of (now - cached_time): whole days, rounded down
days(delta) == delta \div UnitsPerDay

RecentInclusive(clock, cached_time) == days(clock - cached_time) <= CacheDays
RecentSixDays(clock, cached_time) == days(clock - cached_time) < CacheDays - 1

\* youtube.py:486
is_recent(clock, cached_time) == days(clock - cached_time) < CacheDays

\* youtube.py:479-490: "hit" returns the cached document, "miss" goes on to
\* the fetch, "error" is an exception the except clause does not catch.
read_cache(doc, clock) ==
    IF doc.k = "absent" THEN [kind |-> "miss"]
    ELSE IF doc.k = "invalid" \/ doc.k = "list" THEN [kind |-> "miss"]
    ELSE IF doc.k = "number" THEN [kind |-> "error", exc |-> "TypeError"]
    ELSE IF doc.cached_at.c = "missing" THEN [kind |-> "miss"]
    ELSE IF doc.cached_at.c = "nonstr" THEN [kind |-> "error", exc |-> "TypeError"]
    ELSE IF doc.cached_at.c = "badstr" THEN [kind |-> "miss"]
    ELSE IF doc.cached_at.c = "aware" THEN [kind |-> "error", exc |-> "TypeError"]
    ELSE IF is_recent(clock, doc.cached_at.t) THEN [kind |-> "hit"]
    ELSE [kind |-> "miss"]

FieldNeverFails(line, default) ==
    IF line.txt = "json" THEN [ok |-> TRUE, val |-> line.val]
    ELSE [ok |-> TRUE, val |-> default]

\* json.loads(line) if line != 'null' else default   (youtube.py:527-534)
field(line, default) ==
    IF line.txt = "null" THEN [ok |-> TRUE, val |-> default]
    ELSE IF line.txt = "json" THEN [ok |-> TRUE, val |-> line.val]
    ELSE [ok |-> FALSE]

InfoLines == 8

\* youtube.py:499-506: the fields requested with --print, in order
print_fields == << "title", "id", "uploader", "duration", "upload_date",
                  "description", "view_count", "like_count" >>

\* youtube.py:526-537: the parsed fields, without 'cached_at'
video_info(lines, url) ==
    LET f == << field(lines[1], J_Str("Unknown Title")),
                field(lines[2], J_Str(url.id.val)),
                field(lines[3], J_Str("Unknown")),
                field(lines[4], J_Num(0)),
                field(lines[5], J_Null),
                field(lines[6], J_Str("")),
                field(lines[7], J_Num(0)),
                field(lines[8], J_Num(0)) >>
    IN IF \E i \in 1..InfoLines : ~f[i].ok THEN [ok |-> FALSE]
       ELSE [ok |-> TRUE,
             body |-> [title |-> f[1].val, id |-> f[2].val, uploader |-> f[3].val,
                       duration |-> f[4].val, upload_date |-> f[5].val,
                       description |-> f[6].val, view_count |-> f[7].val,
                       like_count |-> f[8].val, url |-> url]]

\* One run of the info query: what it prints and how long it takes.
ToolPrinted(rc, stdout, elapsed) ==
    [kind |-> "exit", rc |-> rc, stdout |-> stdout, elapsed |-> elapsed]

\* youtube.py:441-552. The returned dict is the document D_Object(...);
\* cached_at is stamped when the tool has run.
get_video_info(url, installed, tool, files, doc, dir, clock) ==
    IF ~url.valid \/ ~url.id.some
    THEN Ends(Raise("YouTubeURLError", 0), files, doc, dir, clock)
    ELSE IF ~installed
    THEN Ends(Raise("YTDLPNotFoundError", 0), files, doc, dir, clock)
    ELSE LET cached == read_cache(doc, clock) IN
    IF cached.kind = "hit"
    THEN Ends(Return(doc, 0), files, doc, TRUE, clock)
    ELSE IF cached.kind = "error"
    THEN Ends(Raise(cached.exc, 0), files, doc, TRUE, clock)
    ELSE IF tool.kind = "missing"
    THEN Ends(Raise("YTDLPNotFoundError", 1), files, doc, TRUE, clock)
    ELSE IF tool.kind = "timeout"
    THEN Ends(Raise("YouTubeError", 1), files, doc, TRUE, clock)
    ELSE IF tool.rc # 0
    THEN Ends(Raise("YouTubeError", 1), files, doc, TRUE, clock + tool.elapsed)
    ELSE LET lines == strip_split(tool.stdout)
             after == clock + tool.elapsed
         IN IF Len(lines) < InfoLines
            THEN Ends(Raise("YouTubeError", 1), files, doc, TRUE, after)
            ELSE LET parsed == video_info(lines, url)
                 IN IF ~parsed.ok
                    THEN Ends(Raise("YouTubeError", 1), files, doc, TRUE, after)
                    ELSE LET fresh == D_Object(isoformat(after), parsed.body)
                         IN Ends(Return(fresh, 1), files, fresh, TRUE, after)

\* Bounds and inputs for get_video_info
MaxTime == 14

\* The ages, in time units before the start, of the documents found in the
\* cache: 8 days, 7.5 days, 7 days, 6.5 days, 1 day, and half a day ahead.
InitStamps == { 0 - 16, 0 - 15, 0 - 14, 0 - 13, 0 - 2, 1 }

InfoOut(title, duration) ==
    << T_Json(J_Str(title)), T_Json(J_Str(VideoId)), T_Json(J_Str("U")),
       T_Json(J_Num(duration)), T_Json(J_Str("20200101")), T_Json(J_Str("d")),
       T_Json(J_Num(10)), T_Json(J_Num(5)) >>

OldBody == video_info(InfoOut("old", 30), Url(TRUE, Some(VideoId))).body

InitDocs ==
    { D_Absent, D_Invalid, D_List, D_Number,
      D_Object(At_Missing, OldBody), D_Object(At_NonStr, OldBody),
      D_Object(At_BadStr, OldBody), D_Object(At_Aware(0), OldBody) }
    \cup { D_Object(At_Naive(t), OldBody) : t \in InitStamps }

InfoStdouts ==
    { InfoOut("A", 60), InfoOut("B", 0 - 1),
      [i \in 1..InfoLines |-> T_Null],
      [InfoOut("A", 60) EXCEPT ![4] = T_Invalid],
      [InfoOut("A", 60) EXCEPT ![2] = T_Empty],
      SubSeq(InfoOut("A", 60), 1, InfoLines - 1),
      <<>> }

InfoTools ==
    { ToolMissing, ToolTimeout, ToolPrinted(1, <<>>, 0) }
    \cup { ToolPrinted(0, out, d) : out \in InfoStdouts, d \in {0, 1} }

InfoInit ==
    /\ info \in InitDocs
    /\ dirExists = (info # D_Absent)
    /\ vtt = [l \in VttLangs |-> Absent]
    /\ now = 0
    /\ last = None
    /\ fetched = None
    /\ pipe = [pc |-> "idle"]
    /\ san = [pc |-> "idle"]
    /\ wr = [pc |-> "idle"]
    /\ race = [pc |-> "idle"]
    /\ rec = [pc |-> "idle"]
    /\ sel = [pc |-> "idle"]
    /\ lc = [pc |-> "idle"]

InfoToolsFor(url, installed, clock) ==
    IF url.valid /\ url.id.some /\ installed
    THEN { t \in InfoTools : t.kind = "exit" => clock + t.elapsed <= MaxTime }
    ELSE { ToolMissing }

GetVideoInfo ==
    \E url \in Urls, installed \in BOOLEAN :
    \E tool \in InfoToolsFor(url, installed, now) :
        LET e == get_video_info(url, installed, tool, vtt, info, dirExists, now)
        IN /\ info' = e.info
           /\ dirExists' = e.dir
           /\ now' = e.now
           /\ last' = Some(Called("get_video_info", url, <<>>, installed, tool,
                                  info, now, e.out))
           /\ fetched' = IF e.out.kind = "return" /\ e.out.runs = 1
                         THEN Some(e.out.value) ELSE fetched
           /\ UNCHANGED <<sel, lc, vtt, rec, race, wr, san, pipe>>

\* Time passes between two calls.
Tick ==
    /\ now < MaxTime
    /\ now' = now + 1
    /\ last' = None
    /\ UNCHANGED <<sel, lc, vtt, info, dirExists, fetched, rec, race, wr, san, pipe>>

InfoNext == GetVideoInfo \/ Tick

SpecInfo == InfoInit /\ [][InfoNext]_vars

---------------------------------------------------------------------------
(* The three operations that start the tool, with the time the tool takes  *)

\* The timeout= argument of subprocess.run, in seconds.
ListTimeout == 30
VttTimeout == 60
InfoTimeout == 30

\* One process of the tool: whether the executable is found when it is
\* started, how many seconds it runs, and what it ends with when it is left
\* to finish.
Proc(found, seconds, ends) == [found |-> found, seconds |-> seconds, ends |-> ends]

RunIgnoringTimeout(proc, timeout) ==
    IF ~proc.found THEN ToolMissing ELSE proc.ends

\* subprocess.run(cmd, capture_output=True, text=True, timeout=timeout)
subprocess_run(proc, timeout) ==
    IF ~proc.found THEN ToolMissing
    ELSE IF proc.seconds > timeout THEN ToolTimeout
    ELSE proc.ends

\* Inputs: a run that finishes at once, one of 45 seconds, one of 90 seconds.
RunSeconds == { 1, 45, 90 }
OneManualTrack ==
    << T_Json(J_Dict(<< Item(<<"e","n">>, F_List(E_Named(<<"E","n">>))) >>)),
       T_Json(J_Dict(<<>>)) >>
ListEnds == { ToolExit(0, OneManualTrack), ToolExit(0, <<>>), ToolExit(1, <<>>) }
VttEnds == { ToolWrote(0, <<>>, "exact", "a"), ToolWrote(0, <<>>, "none", "a"),
             ToolWrote(1, <<>>, "none", "a") }
InfoEnds == { ToolPrinted(0, InfoOut("A", 60), 0), ToolPrinted(1, <<>>, 0) }
Procs(ends) == { Proc(f, d, e) : f \in BOOLEAN, d \in RunSeconds, e \in ends }
NoProc == Proc(FALSE, 1, ToolMissing)
\* The process matters only to a call that gets as far as starting it.
ProcsFor(reaches, ends) == IF reaches THEN Procs(ends) ELSE { NoProc }

TimedInit == VttInit

TimedList ==
    \E url \in Urls, installed \in BOOLEAN :
    \E proc \in ProcsFor(url.valid /\ installed, ListEnds) :
        /\ last' = Some(Called("list_captions", url, <<>>, installed, proc, vtt, now,
                               list_captions(url, installed,
                                             subprocess_run(proc, ListTimeout))))
        /\ UNCHANGED <<sel, lc, vtt, info, dirExists, now, fetched, rec, race, wr, san, pipe>>

TimedVtt ==
    \E url \in Urls, lang_code \in VttLangs, installed \in BOOLEAN :
    \E proc \in ProcsFor(url.valid /\ url.id.some /\ installed, VttEnds) :
        LET e == download_vtt(url, lang_code, installed,
                              subprocess_run(proc, VttTimeout),
                              vtt, info, dirExists, now)
        IN /\ vtt' = e.vtt
           /\ dirExists' = e.dir
           /\ last' = Some(Called("download_vtt", url, lang_code, installed, proc,
                                  vtt, now, e.out))
           /\ UNCHANGED <<sel, lc, info, now, fetched, rec, race, wr, san, pipe>>

TimedInfo ==
    \E url \in Urls, installed \in BOOLEAN :
    \E proc \in ProcsFor(url.valid /\ url.id.some /\ installed, InfoEnds) :
        LET e == get_video_info(url, installed, subprocess_run(proc, InfoTimeout),
                                vtt, info, dirExists, now)
        IN /\ info' = e.info
           /\ dirExists' = e.dir
           /\ last' = Some(Called("get_video_info", url, <<>>, installed, proc,
                                  info, now, e.out))
           /\ fetched' = IF e.out.kind = "return" /\ e.out.runs = 1
                         THEN Some(e.out.value) ELSE fetched
           /\ UNCHANGED <<sel, lc, vtt, now, rec, race, wr, san, pipe>>

TimedNext == TimedList \/ TimedVtt \/ TimedInfo

SpecTimed == TimedInit /\ [][TimedNext]_vars

---------------------------------------------------------------------------
(* The URL recogniser: validate_youtube_url and extract_video_id           *)

\* A string literal as a sequence of one-character strings.
Chars(str) == [i \in 1..Len(str) |-> SubSeq(str, i, i)]

Digits == { "0", "1", "2", "3", "4", "5", "6", "7", "8", "9" }
Letters == { UpperCase[i] : i \in 1..26 } \cup { LowerCase[i] : i \in 1..26 }
\* A letter outside ASCII: a word character of \w in a str pattern.
NonAsciiLetters == { "é" }
\* [a-zA-Z0-9_\-] and [\w\-]
IdChars == Letters \cup Digits \cup { "_", "-" }
WordOrHyphen == IdChars \cup NonAsciiLetters
WhiteSpace == { " ", "\t", "\n" }

\* Regular expressions, as far as the two patterns use them.
Lit(str) == [op |-> "lit", str |-> Chars(str)]          \* literal text
In(set) == [op |-> "in", set |-> set]                   \* [...]
NotIn(set) == [op |-> "notin", set |-> set]             \* [^...], \S, .
Cat(parts) == [op |-> "seq", parts |-> parts]           \* r1 r2 ...
Alt(parts) == [op |-> "alt", parts |-> parts]           \* r1|r2|...
Opt(r) == [op |-> "opt", of |-> r]                      \* r?
Star(r) == [op |-> "star", of |-> r]                    \* r*
Plus(r) == Cat(<<r, Star(r)>>)                          \* r+
Rep(r, n) == Cat([k \in 1..n |-> r])                    \* r{n}
Eol == [op |-> "eol"]                                   \* $
NonSpace == NotIn(WhiteSpace)                           \* \S
Dot == NotIn({"\n"})                                    \* .

\* The positions at which a match of r that starts at position i of s can
\* end (the position after its last character), under re.IGNORECASE.
RECURSIVE MatchEnds(_, _, _), SeqEnds(_, _, _, _), StarEnds(_, _, _, _)
MatchEnds(r, s, i) ==
    CASE r.op = "lit" ->
            IF /\ i + Len(r.str) - 1 <= Len(s)
               /\ lower(SubSeq(s, i, i + Len(r.str) - 1)) = lower(r.str)
            THEN { i + Len(r.str) } ELSE {}
      [] r.op = "in" -> IF i <= Len(s) /\ s[i] \in r.set THEN { i + 1 } ELSE {}
      [] r.op = "notin" -> IF i <= Len(s) /\ s[i] \notin r.set THEN { i + 1 } ELSE {}
      [] r.op = "seq" -> SeqEnds(r.parts, 1, s, { i })
      [] r.op = "alt" -> UNION { MatchEnds(r.parts[k], s, i) : k \in 1..Len(r.parts) }
      [] r.op = "opt" -> { i } \cup MatchEnds(r.of, s, i)
      [] r.op = "star" -> StarEnds(r.of, s, { i }, { i })
      [] OTHER -> IF i = Len(s) + 1 \/ (i = Len(s) /\ s[i] = "\n")
                  THEN { i } ELSE {}
SeqEnds(parts, k, s, from) ==
    IF k > Len(parts) THEN from
    ELSE SeqEnds(parts, k + 1, s, UNION { MatchEnds(parts[k], s, j) : j \in from })
StarEnds(r, s, frontier, seen) ==
    LET next == (UNION { MatchEnds(r, s, j) : j \in frontier }) \ seen
    IN IF next = {} THEN seen ELSE StarEnds(r, s, next, seen \cup next)

\* youtube.py:36: the pattern of validate_youtube_url, piece by piece
Params == Star(Cat(<<Plus(NonSpace), Lit("="), Plus(NonSpace), Lit("&")>>))
SubHost == Opt(Cat(<<Alt(<<Lit("www"), Cat(<<Lit("m"), Opt(Lit("usic"))>>)>>), Lit(".")>>))
WatchEncoded ==
    Cat(<< Alt(<<Lit("/"), Lit("%2F")>>), Lit("watch"), Alt(<<Lit("?"), Lit("%3F")>>),
           Lit("v"), Alt(<<Lit("="), Lit("%3D")>>) >>)
PathPrefix ==
    Alt(<< Lit("shorts/"), Lit("live/"), Lit("v/"),
           Cat(<<Lit("e"), Opt(Lit("mbed")), Lit("/")>>),
           Cat(<<Lit("watch"), Alt(<<Lit("/"), Cat(<<Lit("?"), Params, Lit("v=")>>)>>)>>),
           Cat(<< Lit("oembed?url=http"), Opt(Lit("s")), Lit("://"),
                  Alt(<<Lit("www"), Cat(<<Lit("m"), Opt(Lit("usic"))>>)>>),
                  Lit(".youtube.com/watch?"), Params, Lit("v=") >>),
           Cat(<<Lit("attribution_link?"), Params, Lit("u="), WatchEncoded>>) >>)
ValidPattern ==
    Cat(<< Opt(Cat(<<Opt(Cat(<<Lit("http"), Opt(Lit("s")), Lit(":")>>)), Lit("//")>>)),
           Alt(<< Cat(<< SubHost, Lit("youtu"), Alt(<<Lit(".be"), Lit("be.com")>>),
                         Lit("/"), Opt(PathPrefix) >>),
                  Lit("www.youtube-nocookie.com/embed/") >>),
           Rep(In(WordOrHyphen), 11),
           Opt(Cat(<<In({"?", "&", "#"}), Star(Dot)>>)),
           Eol >>)

\* youtube.py:12-39: re.match(pattern, url, re.IGNORECASE) is not None
validate_youtube_url(url) ==
    IF url = <<>> THEN FALSE
    ELSE MatchEnds(ValidPattern, url, 1) # {}

\* youtube.py:58-86: the six patterns of extract_video_id, each a prefix,
\* the group ([a-zA-Z0-9_\-]{11}) and what has to follow the group
AnyEnd == Opt(Eol)
QueryOrEnd == Alt(<<In({"?", "&", "#"}), Eol>>)
IdPatterns ==
    << [prefix |-> Lit("youtu.be/"), follow |-> AnyEnd],
       [prefix |-> Cat(<<In({"?", "&"}), Lit("v=")>>),
        follow |-> Alt(<<In({"&", "#"}), Eol>>)],
       [prefix |-> Cat(<<Alt(<<Lit("embed"), Lit("v")>>), Lit("/")>>),
        follow |-> QueryOrEnd],
       [prefix |-> Cat(<<Alt(<<Lit("shorts"), Lit("live")>>), Lit("/")>>),
        follow |-> QueryOrEnd],
       [prefix |-> Lit("youtube-nocookie.com/embed/"), follow |-> QueryOrEnd],
       [prefix |-> Cat(<<Lit("attribution_link?"), Star(Dot), Lit("u="), WatchEncoded>>),
        follow |-> AnyEnd] >>

\* re.search(prefix ([a-zA-Z0-9_\-]{11}) follow, s, re.IGNORECASE): the
\* group of the leftmost match, None without a match. For one start the
\* prefix ends in one place, except for the greedy .* of the sixth pattern,
\* which takes the longest prefix.
GroupStarts(pat, s, p) ==
    { e \in MatchEnds(pat.prefix, s, p) :
        \E g \in MatchEnds(Rep(In(IdChars), 11), s, e) :
            MatchEnds(pat.follow, s, g) # {} }
Least(S) == CHOOSE x \in S : \A y \in S : x <= y
Greatest(S) == CHOOSE x \in S : \A y \in S : x >= y
re_search(pat, s) ==
    LET starts == { p \in 1..(Len(s) + 1) : GroupStarts(pat, s, p) # {} }
    IN IF starts = {} THEN None
       ELSE LET e == Greatest(GroupStarts(pat, s, Least(starts)))
            IN Some(SubSeq(s, e, e + 10))

RECURSIVE first_match(_, _)
first_match(s, k) ==
    IF k > Len(IdPatterns) THEN None
    ELSE LET m == re_search(IdPatterns[k], s)
         IN IF m.some THEN m ELSE first_match(s, k + 1)

\* youtube.py:42-88
extract_video_id(url) ==
    IF url = <<>> THEN None ELSE first_match(strip(url), 1)

\* Inputs: URL strings put together from a scheme, a host and path up to
\* the identifier, an identifier and a tail. kind tells what the string is:
\* one of the six supported shapes, another shape of a YouTube host, a URL
\* of another host, or a YouTube URL of no video.
Shape(kind, upToId, sep) == [kind |-> kind, upToId |-> upToId, sep |-> sep]
UrlSchemes == { "", "https://", "//" }
UrlShapes ==
    { Shape("supported", "youtu.be/", "?"),
      Shape("supported", "www.youtube.com/watch?v=", "&"),
      Shape("supported", "music.youtube.com/watch?feature=share&v=", "&"),
      Shape("supported", "www.youtube.com/embed/", "?"),
      Shape("supported", "m.youtube.com/v/", "?"),
      Shape("supported", "www.youtube.com/shorts/", "?"),
      Shape("supported", "youtube.com/live/", "?"),
      Shape("supported", "www.youtube-nocookie.com/embed/", "?"),
      Shape("supported", "www.youtube.com/attribution_link?a=b&u=%2Fwatch%3Fv%3D", "&"),
      Shape("supported", "www.youtube.com/attribution_link?u=/watch?v=", "&"),
      Shape("unlisted", "www.youtube.com/watch/", "?"),
      Shape("unlisted", "www.youtube.com/e/", "?"),
      Shape("unlisted", "youtube.com/", "?"),
      Shape("unlisted",
            "www.youtube.com/oembed?url=https://www.youtube.com/watch?v=", "&"),
      Shape("other_host", "vimeo.com/watch?v=", "&"),
      Shape("other_host", "example.com/embed/", "?"),
      Shape("other_host", "vimeo.com/", "?"),
      Shape("no_video", "www.youtube.com/channel/", "?"),
      Shape("no_video", "www.youtube.com/playlist?list=", "&") }
UrlIds == { "dQw4w9WgXcQ", "yZ-K7nCVnBI", "_OBlgSz8sSM", "tooshort",
            "toolongvideoid", "" }
UrlTails == { "none", "query", "fragment", "slash" }
TailOf(tail, sep) ==
    CASE tail = "none" -> ""
      [] tail = "query" -> sep \o "t=10"
      [] tail = "fragment" -> "#t=10"
      [] OTHER -> "/"

UrlCall(scheme, shape, id, tail) ==
    [pc |-> "call", kind |-> shape.kind, id |-> Chars(id), tail |-> tail,
     url |-> Chars(scheme \o shape.upToId \o id \o TailOf(tail, shape.sep)),
     valid |-> FALSE, video_id |-> None]

UrlInit ==
    /\ rec \in { UrlCall(scheme, shape, id, tail) :
                    scheme \in UrlSchemes, shape \in UrlShapes,
                    id \in UrlIds, tail \in UrlTails }
    /\ sel = [pc |-> "idle"]
    /\ lc = [pc |-> "idle"]
    /\ vtt = [l \in VttLangs |-> Absent]
    /\ info = D_Absent
    /\ dirExists = FALSE
    /\ now = 0
    /\ last = None
    /\ fetched = None
    /\ pipe = [pc |-> "idle"]
    /\ san = [pc |-> "idle"]
    /\ wr = [pc |-> "idle"]
    /\ race = [pc |-> "idle"]

\* validate_youtube_url(url) and extract_video_id(url) for one string
Recognize ==
    /\ rec.pc = "call"
    /\ rec' = [rec EXCEPT !.pc = "done",
                          !.valid = validate_youtube_url(rec.url),
                          !.video_id = extract_video_id(rec.url)]
    /\ UNCHANGED <<sel, lc, vtt, info, dirExists, now, last, fetched, race, wr, san, pipe>>

\* download_vtt(url, 'en') for the recognised string; a run of the tool
\* times out.
UrlDownloadVtt ==
    /\ rec.pc = "done"
    /\ \E installed \in BOOLEAN :
        LET url == Url(rec.valid, rec.video_id)
            e == download_vtt(url, <<"e","n">>, installed, ToolTimeout,
                              vtt, info, dirExists, now)
        IN /\ vtt' = e.vtt
           /\ dirExists' = e.dir
           /\ last' = Some(Called("download_vtt", url, <<"e","n">>, installed,
                                  ToolTimeout, vtt, now, e.out))
    /\ UNCHANGED <<sel, lc, info, now, fetched, rec, race, wr, san, pipe>>

\* get_video_info(url) for the recognised string; a run of the tool times
\* out.
UrlGetVideoInfo ==
    /\ rec.pc = "done"
    /\ \E installed \in BOOLEAN :
        LET url == Url(rec.valid, rec.video_id)
            e == get_video_info(url, installed, ToolTimeout,
                                vtt, info, dirExists, now)
        IN /\ info' = e.info
           /\ dirExists' = e.dir
           /\ last' = Some(Called("get_video_info", url, <<>>, installed,
                                  ToolTimeout, info, now, e.out))
    /\ UNCHANGED <<sel, lc, vtt, now, fetched, rec, race, wr, san, pipe>>

UrlNext == Recognize \/ UrlDownloadVtt \/ UrlGetVideoInfo

SpecUrl == UrlInit /\ [][UrlNext]_vars

---------------------------------------------------------------------------
(* Two concurrent calls of get_video_info for one video id                 *)

\* The text of info.json is a sequence of units; the unit <<p, k>> is the
\* k-th unit of the document that call p serialises. A document is shorter
\* than the file object's buffer, so close() writes it with one write.
MaxText == 3
Callers == { 1, 2 }
TextOf(p, n) == [k \in 1..n |-> <<p, k>>]

\* youtube.py:479-490: the file holds a complete document that was stamped
\* by a running call, so it is fresh
complete_text(file, calls) ==
    /\ file.some
    /\ \E q \in Callers : calls[q].text.some /\ file.val = calls[q].text.val

\* youtube.py:540: open(info_path, 'w') creates the file or truncates it
open_w(file) == Some(<<>>)

\* youtube.py:540-541: leaving the with block flushes the buffer: one write
\* at the file object's own offset 0, which keeps what lies behind it
flush_at_zero(file, text) ==
    Some(text \o SubSeq(file.val, Len(text) + 1, Len(file.val)))

RaceCall == [pc |-> "lookup", text |-> None, ret |-> None]

RaceInit ==
    /\ race = [pc |-> "run", file |-> None, calls |-> [p \in Callers |-> RaceCall]]
    /\ sel = [pc |-> "idle"]
    /\ lc = [pc |-> "idle"]
    /\ vtt = [l \in VttLangs |-> Absent]
    /\ info = D_Absent
    /\ dirExists = TRUE
    /\ now = 0
    /\ last = None
    /\ fetched = None
    /\ pipe = [pc |-> "idle"]
    /\ san = [pc |-> "idle"]
    /\ wr = [pc |-> "idle"]
    /\ rec = [pc |-> "idle"]

RaceFrame == UNCHANGED <<sel, lc, vtt, info, dirExists, now, last, fetched, rec, wr, san, pipe>>

\* youtube.py:479-490: the cache lookup of call p
RaceLookup(p) ==
    /\ race.calls[p].pc = "lookup"
    /\ race' = IF complete_text(race.file, race.calls)
               THEN [race EXCEPT !.calls[p].pc = "done",
                                 !.calls[p].ret = race.file]
               ELSE [race EXCEPT !.calls[p].pc = "fetch"]
    /\ RaceFrame

\* youtube.py:493-537: the tool runs and the document of call p is built
RaceFetch(p) ==
    /\ race.calls[p].pc = "fetch"
    /\ \E n \in 1..MaxText :
          race' = [race EXCEPT !.calls[p].pc = "open",
                               !.calls[p].text = Some(TextOf(p, n))]
    /\ RaceFrame

\* youtube.py:540: open(info_path, 'w', encoding='utf-8')
RaceOpen(p) ==
    /\ race.calls[p].pc = "open"
    /\ race' = [race EXCEPT !.calls[p].pc = "dump", !.file = open_w(race.file)]
    /\ RaceFrame

\* youtube.py:541-543: json.dump into the buffer, close, return video_info
RaceDump(p) ==
    /\ race.calls[p].pc = "dump"
    /\ race' = [race EXCEPT !.calls[p].pc = "done",
                            !.calls[p].ret = race.calls[p].text,
                            !.file = flush_at_zero(race.file, race.calls[p].text.val)]
    /\ RaceFrame

RaceNext ==
    \E p \in Callers : RaceLookup(p) \/ RaceFetch(p) \/ RaceOpen(p) \/ RaceDump(p)

SpecRace == RaceInit /\ [][RaceNext]_vars

---------------------------------------------------------------------------
(* youtube.sanitize_filename                                               *)

\* youtube.py:324: invalid_chars
invalid_chars == { "<", ">", ":", "\"", "/", "\\", "|", "?", "*" }

\* youtube.py:325-326: every invalid character replaced by an underscore
replace_invalid(title) ==
    [i \in 1..Len(title) |-> IF title[i] \in invalid_chars THEN "_" ELSE title[i]]

\* str.strip(chars): leading and trailing characters of the set removed
strip_chars(s, chars) ==
    IF \A i \in 1..Len(s) : s[i] \in chars THEN <<>>
    ELSE LET first == CHOOSE i \in 1..Len(s) :
                          s[i] \notin chars /\ \A j \in 1..(i-1) : s[j] \in chars
             final == CHOOSE i \in 1..Len(s) :
                          s[i] \notin chars /\ \A j \in (i+1)..Len(s) : s[j] \in chars
         IN SubSeq(s, first, final)

\* str.rstrip(): trailing whitespace removed
rstrip(s) ==
    IF \A i \in 1..Len(s) : IsSpace(s[i]) THEN <<>>
    ELSE SubSeq(s, 1, CHOOSE i \in 1..Len(s) :
                          ~IsSpace(s[i]) /\ \A j \in (i+1)..Len(s) : IsSpace(s[j]))

\* youtube.py:332
max_length == 200

\* youtube.py:313-336
sanitize_filename(title) ==
    LET stripped == strip_chars(replace_invalid(title), {" ", "."})
    IN IF Len(stripped) > max_length
       THEN rstrip(SubSeq(stripped, 1, max_length))
       ELSE stripped

\* Inputs: titles made of a beginning and an end of up to MaxAffix
\* characters around a run of the letter a, up to just over max_length in all.
MaxAffix == 2
TitleChars == { "a", " ", ".", "/" }
Affixes == UNION { [1..n -> TitleChars] : n \in 0..MaxAffix }
Fillers == { 0 } \cup ((max_length - MaxAffix - 1)..max_length)
Run(n) == [i \in 1..n |-> "a"]

SanInit ==
    /\ \E head \in Affixes, n \in Fillers, tail \in Affixes :
          san = [pc |-> "call", title |-> head \o Run(n) \o tail, result |-> <<>>]
    /\ sel = [pc |-> "idle"]
    /\ lc = [pc |-> "idle"]
    /\ vtt = <<>>
    /\ info = None
    /\ dirExists = FALSE
    /\ now = 0
    /\ last = None
    /\ fetched = None
    /\ pipe = [pc |-> "idle"]
    /\ rec = [pc |-> "idle"]
    /\ race = [pc |-> "idle"]
    /\ wr = [pc |-> "idle"]

Sanitize ==
    /\ san.pc = "call"
    /\ san' = [san EXCEPT !.pc = "done", !.result = sanitize_filename(san.title)]
    /\ UNCHANGED <<sel, lc, vtt, info, dirExists, now, last, fetched, rec, race, wr, pipe>>

SanNext == Sanitize

SpecSan == SanInit /\ [][SanNext]_vars

---------------------------------------------------------------------------
(* macos_ai.transcribe_from_clipboard and the helper process               *)

\* How many writes fit into a pipe before a further write blocks, and how
\* many writes a helper makes before it exits.
PipeCapacity == 2
MaxWrites == 4

\* What the helper writes: to stdout a line holding a JSON segment, a line
\* that is not JSON, or a blank line; or a piece of text to stderr.
WriteKinds == { "segment", "junk", "blank", "stderr" }
Scripts == UNION { [1..n -> WriteKinds] : n \in 0..MaxWrites }

\* The segments the helper emits, in order, each named by the position of
\* its write.
Emitted(script) ==
    SelectSeq([i \in 1..Len(script) |-> i], LAMBDA i : script[i] = "segment")

\* macos_ai.py:29-36: the helper is started with both streams piped, and
\* the parent begins to read stdout.
PipeInit ==
    /\ \E script \in Scripts, code \in {0, 1} :
          pipe = [pc |-> "read_stdout", script |-> script, at |-> 1,
                  code |-> code, exited |-> FALSE, out |-> <<>>, err |-> 0,
                  segments |-> <<>>, exc |-> "none"]
    /\ sel = [pc |-> "idle"]
    /\ lc = [pc |-> "idle"]
    /\ vtt = <<>>
    /\ info = None
    /\ dirExists = FALSE
    /\ now = 0
    /\ last = None
    /\ fetched = None
    /\ rec = [pc |-> "idle"]
    /\ race = [pc |-> "idle"]
    /\ wr = [pc |-> "idle"]
    /\ san = [pc |-> "idle"]

PipeFrame == UNCHANGED <<sel, lc, vtt, info, dirExists, now, last, fetched, rec, race, wr, san>>

\* The helper's next write: it goes through when the pipe has room, and
\* blocks until then.
HelperWrite ==
    /\ ~pipe.exited /\ pipe.at <= Len(pipe.script)
    /\ IF pipe.script[pipe.at] = "stderr"
       THEN /\ pipe.err < PipeCapacity
            /\ pipe' = [pipe EXCEPT !.err = @ + 1, !.at = @ + 1]
       ELSE /\ Len(pipe.out) < PipeCapacity
            /\ pipe' = [pipe EXCEPT
                          !.out = Append(@, [kind |-> pipe.script[pipe.at],
                                             n |-> pipe.at]),
                          !.at = @ + 1]
    /\ PipeFrame

\* The helper has written everything and exits, which closes its ends of
\* both pipes.
HelperExit ==
    /\ ~pipe.exited /\ pipe.at > Len(pipe.script)
    /\ pipe' = [pipe EXCEPT !.exited = TRUE]
    /\ PipeFrame

\* macos_ai.py:38-42: one turn of the loop over proc.stdout
ParentReadLine ==
    /\ pipe.pc = "read_stdout" /\ pipe.out # <<>>
    /\ LET line == Head(pipe.out)
       IN pipe' = CASE line.kind = "blank" -> [pipe EXCEPT !.out = Tail(@)]
                    [] line.kind = "segment" ->
                          [pipe EXCEPT !.out = Tail(@),
                                       !.segments = Append(@, line.n)]
                    [] OTHER ->
                          [pipe EXCEPT !.out = Tail(@), !.pc = "raised",
                                       !.exc = "JSONDecodeError"]
    /\ PipeFrame

\* macos_ai.py:38: the loop ends at end-of-file, when the pipe is empty and
\* its write end is closed
ParentEof ==
    /\ pipe.pc = "read_stdout" /\ pipe.out = <<>> /\ pipe.exited
    /\ pipe' = [pipe EXCEPT !.pc = "wait"]
    /\ PipeFrame

\* macos_ai.py:44-49: proc.wait(), then return for exit code 0
ParentWait ==
    /\ pipe.pc = "wait" /\ pipe.exited
    /\ pipe' = [pipe EXCEPT !.pc = IF pipe.code = 0 THEN "returned"
                                   ELSE "read_stderr"]
    /\ PipeFrame

\* macos_ai.py:46-47: proc.stderr.read() and raise RuntimeError
ParentReadStderr ==
    /\ pipe.pc = "read_stderr"
    /\ pipe' = [pipe EXCEPT !.err = 0, !.pc = "raised", !.exc = "RuntimeError"]
    /\ PipeFrame

PipeHelper == HelperWrite \/ HelperExit
PipeParent == ParentReadLine \/ ParentEof \/ ParentWait \/ ParentReadStderr
PipeNext == PipeHelper \/ PipeParent

\* Both processes are scheduled: each takes its next step when it can.
SpecPipe ==
    PipeInit /\ [][PipeNext]_vars /\ WF_vars(PipeHelper) /\ WF_vars(PipeParent)

---------------------------------------------------------------------------
(* files.write_text                                                        *)

\* What is at the target path: nothing, a directory, or a regular file with
\* its content.
NoEntry == [is |-> "nothing"]
Directory == [is |-> "dir"]
RegularFile(content) == [is |-> "file", content |-> content]

\* The content argument: the empty string, text that is not JSON, or JSON
\* text (compact, or as json.dumps(..., indent=2) prints it).
EmptyText == [form |-> "empty", of |-> ""]
PlainText(t) == [form |-> "plain", of |-> t]
CompactJson(j) == [form |-> "compact_json", of |-> j]
PrettyJson(j) == [form |-> "pretty_json", of |-> j]

\* files.py:121-130: the text that is written
text_to_write(path, content) ==
    IF path.json /\ content.form \in {"compact_json", "pretty_json"}
    THEN PrettyJson(content.of)
    ELSE content

ExistsIgnored(entry) == FALSE

\* files.py:13-23: path.exists() and path.is_file()
check_exists(entry) == entry.is = "file"

\* What a call of write_text ends with and leaves behind; prompted tells
\* whether confirm_overwrite was called.
Wrote(out, entry, parent, prompted) ==
    [out |-> out, entry |-> entry, parent |-> parent, prompted |-> prompted]

\* files.py:83-137. path.traversal: the resolved path contains "..";
\* path.json: its suffix is .json. parent is "exists", "creatable" or
\* "denied"; answer is what Confirm.ask returns; writable whether the file
\* can be opened for writing.
write_text(entry, parent, path, content, force, answer, writable) ==
    IF content.form = "empty"
    THEN Wrote(Raise("ValueError", 0), entry, parent, FALSE)
    ELSE IF path.traversal
    THEN Wrote(Raise("ValueError", 0), entry, parent, FALSE)
    ELSE IF parent = "denied"
    THEN Wrote(Raise("PermissionError", 0), entry, parent, FALSE)
    ELSE LET asks == check_exists(entry) /\ ~force IN
    IF asks /\ ~answer
    THEN Wrote(Raise("Abort", 0), entry, "exists", TRUE)
    ELSE IF entry.is = "dir"
    THEN Wrote(Raise("Exception", 0), entry, "exists", asks)
    ELSE IF ~writable
    THEN Wrote(Raise("PermissionError", 0), entry, "exists", asks)
    ELSE Wrote(Return("None", 0), RegularFile(text_to_write(path, content)),
               "exists", asks)

\* Inputs
WrContents == { EmptyText, PlainText("a"), PlainText("b"), CompactJson("j"),
                PrettyJson("j") }
WrPaths == { [traversal |-> t, json |-> j] : t \in BOOLEAN, j \in BOOLEAN }

WrInit ==
    /\ \E e \in { NoEntry, Directory, RegularFile(PlainText("a")) } :
       \E par \in { "exists", "creatable", "denied" } :
          /\ par # "exists" => e = NoEntry
          /\ wr = [pc |-> "ready", entry |-> e, parent |-> par, call |-> None]
    /\ sel = [pc |-> "idle"]
    /\ lc = [pc |-> "idle"]
    /\ vtt = <<>>
    /\ info = None
    /\ dirExists = FALSE
    /\ now = 0
    /\ last = None
    /\ fetched = None
    /\ pipe = [pc |-> "idle"]
    /\ san = [pc |-> "idle"]
    /\ rec = [pc |-> "idle"]
    /\ race = [pc |-> "idle"]

WriteText ==
    \E path \in WrPaths, content \in WrContents, force \in BOOLEAN,
       answer \in BOOLEAN, writable \in BOOLEAN :
        LET w == write_text(wr.entry, wr.parent, path, content, force, answer,
                            writable)
        IN /\ wr' = [pc |-> "ready", entry |-> w.entry, parent |-> w.parent,
                     call |-> Some([path |-> path, content |-> content,
                                    force |-> force, answer |-> answer,
                                    writable |-> writable, pre |-> wr.entry,
                                    out |-> w.out, prompted |-> w.prompted])]
           /\ UNCHANGED <<sel, lc, vtt, info, dirExists, now, last, fetched, rec, race, san, pipe>>

WrNext == WriteText

SpecWrite == WrInit /\ [][WrNext]_vars

---------------------------------------------------------------------------
(* Claims about select_caption_track, verified under SpecSelect            *)

SelDone == sel.pc = "done"
SelGiven == sel.pref.some /\ sel.pref.val # <<>>

\* The score as the specification words it.
StatedScore(track, pref) ==
    LET wanted == strip(lower(pref))
        code == lower(track.code)
        relation == IF code = wanted THEN 100
                    ELSE IF split_first(code) = split_first(wanted) THEN 50
                    ELSE 1
        origin == IF track.auto THEN 0 ELSE 10
    IN relation + origin

\* 1 exact-manual, 2 exact-auto, 3 base-manual, 4 base-auto,
\* 5 unrelated-manual, 6 unrelated-auto
StatedRank(track, pref) ==
    LET wanted == strip(lower(pref))
        code == lower(track.code)
        relation == IF code = wanted THEN 0
                    ELSE IF split_first(code) = split_first(wanted) THEN 2
                    ELSE 4
    IN relation + (IF track.auto THEN 2 ELSE 1)

\* C1: for a non-empty listing and a non-empty preference the result is the
\* track of maximal score (100 exact / 50 same base / 1 unrelated, plus 10 if
\* manual), the earliest in listing order among those of maximal score; so
\* no track of a better rank (exact-manual > exact-auto > base-manual >
\* base-auto > unrelated-manual > unrelated-auto) is in the listing.
C1_MaxScoreEarliest ==
    (SelDone /\ sel.captions # <<>> /\ SelGiven) =>
        \E i \in 1..Len(sel.captions) :
            /\ sel.result = Some(sel.captions[i])
            /\ \A j \in 1..Len(sel.captions) :
                   /\ StatedScore(sel.captions[j], sel.pref.val)
                        <= StatedScore(sel.captions[i], sel.pref.val)
                   /\ StatedRank(sel.captions[j], sel.pref.val)
                        >= StatedRank(sel.captions[i], sel.pref.val)
                   /\ j < i => StatedScore(sel.captions[j], sel.pref.val)
                                 < StatedScore(sel.captions[i], sel.pref.val)

\* A tie at the maximal score between two different tracks, the earlier one
\* returned, with a worse track listed before both.
C1_Witness ==
    /\ SelDone /\ SelGiven /\ Len(sel.captions) = 3
    /\ sel.captions[2] # sel.captions[3]
    /\ StatedScore(sel.captions[2], sel.pref.val) = 60
    /\ StatedScore(sel.captions[3], sel.pref.val) = 60
    /\ StatedScore(sel.captions[1], sel.pref.val) = 50
    /\ sel.result = Some(sel.captions[2])

\* C2: the result is none exactly when the listing is empty, whatever the
\* preference; for a non-empty listing it is an element of the listing.
C2_NoneIffEmpty ==
    SelDone =>
        /\ (sel.result = None) <=> (sel.captions = <<>>)
        /\ sel.captions # <<>> =>
              \E i \in 1..Len(sel.captions) : sel.result = Some(sel.captions[i])

\* A non-empty listing with no track related to the preference still yields
\* a track.
C2_Witness ==
    /\ SelDone /\ SelGiven /\ sel.captions # <<>>
    /\ \A i \in 1..Len(sel.captions) :
          StatedScore(sel.captions[i], sel.pref.val) <= 11
    /\ sel.result.some

\* C3: with no preference given the result is the first track in listing
\* order that is not auto-generated, and the first track of the listing
\* when every track is auto-generated.
C3_NoPreference ==
    (SelDone /\ ~sel.pref.some /\ sel.captions # <<>>) =>
        \E i \in 1..Len(sel.captions) :
            /\ sel.result = Some(sel.captions[i])
            /\ \/ /\ ~sel.captions[i].auto
                  /\ \A j \in 1..(i-1) : sel.captions[j].auto
               \/ /\ i = 1
                  /\ \A j \in 1..Len(sel.captions) : sel.captions[j].auto

\* An auto-generated track listed first, a manual one after it, returned.
C3_Witness ==
    /\ SelDone /\ ~sel.pref.some /\ Len(sel.captions) >= 2
    /\ sel.captions[1].auto /\ ~sel.captions[2].auto
    /\ sel.result = Some(sel.captions[2])

---------------------------------------------------------------------------
(* Claims about list_captions, verified under SpecList                     *)

LcDone == lc.pc = "done"
LcReturned == LcDone /\ lc.outcome.kind = "return"
LcRaised(e) == LcDone /\ lc.outcome.kind = "raise" /\ lc.outcome.exc = e
\* The tool was started and exited with code 0.
LcExitZero ==
    lc.url.valid /\ lc.installed /\ lc.tool.kind = "exit" /\ lc.tool.rc = 0
LcLines == strip_split(lc.tool.stdout)
\* The n-th output line is a JSON object / is not valid JSON / parses.
LcLineIsDict(n) == LcLines[n].txt = "json" /\ LcLines[n].val.t = "dict"
LcLineInvalid(n) == LcLines[n].txt = "invalid"
\* The languages of the map printed on line n (none for "" and "null").
LcKeys(n) ==
    IF LcLineIsDict(n)
    THEN { LcLines[n].val.items[i].key : i \in 1..Len(LcLines[n].val.items) }
    ELSE {}
TracksOf(listing, code) == { i \in 1..Len(listing) : listing[i].code = code }

\* C4: a returned listing holds at most one track per language_code: each
\* language of the manual map exactly once and manual, each language of the
\* automatic map that the manual map lacks exactly once and automatic, and
\* a language of both maps only as the manual track.
C4_OneTrackPerLanguage ==
    LcReturned =>
        LET listing == lc.outcome.value IN
        /\ \A i, j \in 1..Len(listing) : i # j => listing[i].code # listing[j].code
        /\ \A k \in LcKeys(1) :
              /\ Cardinality(TracksOf(listing, k)) = 1
              /\ \A i \in TracksOf(listing, k) : ~listing[i].auto
        /\ \A k \in LcKeys(2) \ LcKeys(1) :
              /\ Cardinality(TracksOf(listing, k)) = 1
              /\ \A i \in TracksOf(listing, k) : listing[i].auto
        /\ \A i \in 1..Len(listing) : listing[i].code \in LcKeys(1) \cup LcKeys(2)

\* A language printed in both maps, listed once, as the manual track, next
\* to an automatic-only language.
C4_Witness ==
    /\ LcReturned
    /\ LcKeys(1) \cap LcKeys(2) # {}
    /\ LcKeys(2) \ LcKeys(1) # {}
    /\ Len(lc.outcome.value) = 2

\* C5: list_captions never returns an empty listing; when both maps are
\* read and yield no track it raises NoCaptionsError.
C5_NeverEmpty ==
    /\ LcReturned => lc.outcome.value # <<>>
    /\ (LcDone /\ LcExitZero /\ Len(LcLines) >= 2
          /\ (LcLineIsDict(1) \/ LcLines[1].txt \in {"empty", "null"})
          /\ (LcLineIsDict(2) \/ LcLines[2].txt \in {"empty", "null"})
          /\ LcKeys(1) \cup LcKeys(2) = {})
        => LcRaised("NoCaptionsError")

\* The tool prints two empty maps and the call raises NoCaptionsError.
C5_Witness ==
    /\ LcExitZero
    /\ Len(LcLines) = 2 /\ LcLineIsDict(1) /\ LcLineIsDict(2)
    /\ LcKeys(1) \cup LcKeys(2) = {}
    /\ LcRaised("NoCaptionsError")

LcMalformed ==
    LcExitZero /\ (Len(LcLines) < 2 \/ LcLineInvalid(1) \/ LcLineInvalid(2))
LcToolFailed ==
    lc.url.valid /\ lc.installed
    /\ (lc.tool.kind = "timeout" \/ (lc.tool.kind = "exit" /\ lc.tool.rc # 0))
LcMergedEmpty ==
    /\ LcExitZero /\ Len(LcLines) >= 2
    /\ ~LcLineInvalid(1) /\ ~LcLineInvalid(2)
    /\ LcKeys(1) \cup LcKeys(2) = {}

TypedErrors == { "YouTubeURLError", "YTDLPNotFoundError", "NoCaptionsError",
                 "YouTubeError" }

\* C7 (for list_captions): whatever the tool does, the call returns or
\* raises one of YouTubeURLError, YtDlpNotFoundError, NoCaptionsError,
\* YouTubeError.
C7_TypedErrorsOnly ==
    LcDone => (lc.outcome.kind = "return" \/ lc.outcome.exc \in TypedErrors)

\* a is not after b in lexicographic order: at the first position where
\* they differ a has the smaller code point, or a is a prefix of b.
LexNotAfter(a, b) ==
    \/ /\ Len(a) <= Len(b)
       /\ \A k \in 1..Len(a) : a[k] = b[k]
    \/ \E k \in 1..Len(a) :
          /\ k <= Len(b)
          /\ \A j \in 1..(k-1) : a[j] = b[j]
          /\ a[k] # b[k]
          /\ Ord(a[k]) < Ord(b[k])

\* C22: the listing list_captions returns is in ascending lexicographic
\* order of language_code, whatever the order of the languages in the manual
\* and automatic maps.
C22_SortedByCode ==
    LcReturned =>
        \A i, j \in 1..Len(lc.outcome.value) :
            i < j => LexNotAfter(lc.outcome.value[i].code, lc.outcome.value[j].code)

\* The manual map lists 'es' before 'en', an automatic track comes on top,
\* and the listing starts with 'en'.
C22_Witness ==
    /\ LcReturned /\ LcLineIsDict(1) /\ LcLineIsDict(2)
    /\ Len(LcLines[1].val.items) = 2 /\ Len(LcLines[2].val.items) = 1
    /\ LcLines[1].val.items[1].key = <<"e","s">>
    /\ LcLines[1].val.items[2].key = <<"e","n">>
    /\ LcLines[2].val.items[1].key = <<"e","n","-","U","S">>
    /\ Len(lc.outcome.value) = 3
    /\ lc.outcome.value[1].code = <<"e","n">>
    /\ lc.outcome.value[2].code = <<"e","n","-","U","S">>
    /\ lc.outcome.value[2].auto

\* The formats the map on line n gives for a language code.
LcFormatsOf(n, code) ==
    LET items == LcLines[n].val.items
    IN items[CHOOSE i \in 1..Len(items) : items[i].key = code].val
\* The formats a returned track was made from: those of the manual map for
\* a manual track, those of the automatic map for an automatic one.
LcSourceOf(track) == LcFormatsOf(IF track.auto THEN 2 ELSE 1, track.code)
\* The first format entry carries a name that is a string.
LcNamed(formats) == formats.f = "list" /\ formats.first.e = "named"
\* The name the map gives the language: the name of the first format entry,
\* or the language code when the entry has no name or there is no entry.
LcGivenName(track) ==
    IF LcNamed(LcSourceOf(track)) THEN LcSourceOf(track).first.name ELSE track.code
\* How many times the marker occurs in a name, in any letter case.
MarkerCount(name) ==
    Cardinality({ i \in 1..Len(name) :
                    /\ i + Len(AutoMarker) - 1 <= Len(name)
                    /\ SubSeq(lower(name), i, i + Len(AutoMarker) - 1) = AutoMarker })

\* The names of the returned tracks: a manual track has the given name, an
\* automatic track the given name with " (auto-generated)" appended unless
\* the given name holds the marker in some letter case.
LcDisplayNames ==
    \A i \in 1..Len(lc.outcome.value) :
        LET track == lc.outcome.value[i]
        IN IF ~track.auto
           THEN \/ /\ LcSourceOf(track).f = "list"
                   /\ LcSourceOf(track).first.e = "named_nonstr"
                \/ track.name = LcGivenName(track)
           ELSE track.name = IF MarkerCount(LcGivenName(track)) > 0
                             THEN LcGivenName(track)
                             ELSE LcGivenName(track) \o AutoSuffix

\* C26 as stated: the display names are as above, and the marker occurs
\* exactly once in the display name of every automatic track.
C26_AsStated ==
    LcReturned =>
        /\ LcDisplayNames
        /\ \A i \in 1..Len(lc.outcome.value) :
              lc.outcome.value[i].auto => MarkerCount(lc.outcome.value[i].name) = 1

\* C26 (amended): the display names are as above; the marker occurs at
\* least once in the display name of every automatic track, and exactly
\* once when the name the tool gave holds it at most once.
C26_MarkerPresent ==
    LcReturned =>
        /\ LcDisplayNames
        /\ \A i \in 1..Len(lc.outcome.value) :
              LET track == lc.outcome.value[i]
              IN track.auto =>
                    /\ MarkerCount(track.name) >= 1
                    /\ MarkerCount(LcGivenName(track)) <= 1 =>
                          MarkerCount(track.name) = 1

\* An automatic-only track whose name already holds the marker in another
\* letter case keeps its name, next to a manual track named by the tool.
C26_Witness ==
    /\ LcReturned /\ Len(lc.outcome.value) = 2
    /\ ~lc.outcome.value[1].auto /\ lc.outcome.value[2].auto
    /\ lc.outcome.value[1].name = <<"E","n">>
    /\ LcNamed(LcSourceOf(lc.outcome.value[2]))
    /\ MarkerCount(LcGivenName(lc.outcome.value[2])) = 1
    /\ lc.outcome.value[2].name = LcGivenName(lc.outcome.value[2])

---------------------------------------------------------------------------
(* Claims about download_vtt, verified under SpecVtt                       *)

VttCalled == last.some /\ last.val.op = "download_vtt"
\* The call passed the URL checks and found the tool on the search path.
VttAdmitted ==
    VttCalled /\ last.val.url.valid /\ last.val.url.id.some /\ last.val.installed

\* C8: when the VTT file exists at the canonical path, download_vtt (valid
\* URL, tool available) returns that path, starts the tool zero times and
\* leaves the cached files as they were.
C8_CacheHit ==
    (VttAdmitted /\ last.val.pre[last.val.lang] # Absent) =>
        /\ last.val.out = Return(last.val.lang, 0)
        /\ vtt = last.val.pre

\* A call for a cached language, in an environment where a run of the tool
\* would have written a file.
C8_Witness ==
    /\ VttAdmitted
    /\ last.val.pre[last.val.lang] # Absent
    /\ last.val.tool.kind = "exit" /\ last.val.tool.rc = 0
    /\ last.val.tool.wrote = "exact"
    /\ last.val.tool.content # last.val.pre[last.val.lang]
    /\ last.val.out.kind = "return" /\ last.val.out.runs = 0

\* C9: a VTT file present at the canonical path before a download_vtt call
\* for the same video, with any language code, is still there with the same
\* content after the call.
C9_Immutable ==
    VttCalled =>
        \A l \in VttLangs : last.val.pre[l] # Absent => vtt[l] = last.val.pre[l]

\* The tool was started (nothing cached under the requested code) and
\* exited with code 0 / with another code.
VttRan ==
    /\ VttAdmitted /\ last.val.pre[last.val.lang] = Absent
    /\ last.val.tool.kind = "exit"
VttExitZero == VttRan /\ last.val.tool.rc = 0
VttExitNonZero == VttRan /\ last.val.tool.rc # 0
\* The part of the requested code before the region suffix.
VttBase == split_first(last.val.lang)
\* The run wrote the file at the canonical path / under the base code.
VttWroteCanonical ==
    \/ last.val.tool.wrote = "exact"
    \/ last.val.tool.wrote = "base" /\ VttBase = last.val.lang
VttWroteBase ==
    /\ last.val.tool.wrote = "base" /\ VttBase # last.val.lang
    /\ last.val.pre[VttBase] = Absent
VttReturnedPath == last.val.out = Return(last.val.lang, 1)

MentionsAbsence(stderr) ==
    Contains(lower(stderr), <<"n","o"," ","s","u","b","t","i","t","l","e","s">>)

\* C16: on a non-zero exit the call raises NoCaptionsError exactly when the
\* tool's error output mentions the absence of subtitles, and YouTubeError
\* for every other error output.
C16_AbsenceOnly ==
    VttExitNonZero =>
        /\ MentionsAbsence(last.val.tool.stderr) <=>
              last.val.out = Raise("NoCaptionsError", 1)
        /\ ~MentionsAbsence(last.val.tool.stderr) <=>
              last.val.out = Raise("YouTubeError", 1)

---------------------------------------------------------------------------
(* Claims about get_video_info, verified under SpecInfo                    *)

InfoCalled == last.some /\ last.val.op = "get_video_info"
InfoAdmitted ==
    InfoCalled /\ last.val.url.valid /\ last.val.url.id.some /\ last.val.installed
\* The cache held a document whose cached_at parses to a timestamp without
\* UTC offset, as get_video_info writes it.
InfoStamped ==
    /\ InfoAdmitted /\ last.val.pre.k = "object"
    /\ last.val.pre.cached_at.c = "naive"
\* The time from cached_at to the call, in time units.
InfoAge == last.val.at - last.val.pre.cached_at.t
InfoHit == last.val.out = Return(last.val.pre, 0) /\ info = last.val.pre
\* The tool was started once; if the call returned, it returned a document
\* fetched by that run, which is now the stored one.
InfoRefetched ==
    /\ last.val.out.runs = 1
    /\ last.val.out.kind = "return" =>
          /\ last.val.out.value = info
          /\ info.cached_at = At_Naive(now)
          /\ info.body = video_info(strip_split(last.val.tool.stdout),
                                    last.val.url).body

InfoUnreadable ==
    /\ InfoAdmitted
    /\ \/ last.val.pre.k \in {"invalid", "list", "number"}
       \/ /\ last.val.pre.k = "object"
          /\ last.val.pre.cached_at.c \in {"missing", "badstr", "nonstr"}

\* C11: an info.json that fails to read or parse (invalid JSON, JSON that
\* is not an object, no cached_at, a cached_at that is not an ISO timestamp
\* string) is a cache miss: the tool is started for a fresh fetch, and the
\* failure does not reach the caller as an error.
C11_UnreadableIsMiss ==
    InfoUnreadable =>
        /\ last.val.out.runs = 1
        /\ last.val.out.kind = "raise" => last.val.out.exc \in TypedErrors

\* One step of get_video_info, seen from the document the latest successful
\* fetch returned.
C12_Step ==
    /\ (last'.some /\ last'.val.out.kind = "return" /\ last'.val.out.runs = 1) =>
          /\ info' = last'.val.out.value
          /\ info'.cached_at = At_Naive(now')
    /\ (/\ fetched.some /\ last'.some
        /\ last'.val.url.valid /\ last'.val.url.id.some /\ last'.val.installed
        /\ last'.val.at - fetched.val.cached_at.t < CacheDays * UnitsPerDay) =>
          /\ last'.val.out = Return(fetched.val, 0)
          /\ info' = fetched.val
          /\ fetched' = fetched

\* C12: a successful fresh fetch leaves in the cache exactly the document
\* it returns, stamped with the time of the fetch; every later call made
\* less than 7 days after that time returns the same document and starts
\* the tool zero times.
C12_FetchedThenHits == [][C12_Step]_vars

\* A call made 6.5 days after a fetch returns the fetched document without
\* starting the tool.
C12_Witness ==
    /\ InfoCalled /\ fetched.some
    /\ last.val.at - fetched.val.cached_at.t = CacheDays * UnitsPerDay - 1
    /\ last.val.out = Return(fetched.val, 0)
    /\ info = fetched.val


\* The call fetched: the tool ran and the call returned a document.
InfoFetched ==
    InfoCalled /\ last.val.out.kind = "return" /\ last.val.out.runs = 1

\* The fields of CachedVideoInfo that are printed by the tool, with the
\* default the specification gives for a null (none where it gives none).
StatedPrinted == << "title", "id", "uploader", "duration", "upload_date",
                   "description", "view_count", "like_count", "chapters" >>
StatedDefault(f) ==
    CASE f = "title" -> Some(J_Str("Unknown Title"))
      [] f = "uploader" -> Some(J_Str("Unknown"))
      [] f \in {"duration", "view_count", "like_count"} -> Some(J_Num(0))
      [] f = "chapters" -> Some(J_Null)
      [] OTHER -> None

\* C13: a fresh fetch requests title, id, uploader, duration, upload_date,
\* description, view_count, like_count and chapters, in this order, and
\* returns a document with each of them, with url and with cached_at; each
\* printed field is the JSON value the tool printed, and a field printed as
\* null is its default ("Unknown Title", "Unknown", 0, 0, 0, chapters none).
C13_AllFields ==
    InfoFetched =>
        LET doc == last.val.out.value
            lines == strip_split(last.val.tool.stdout)
        IN /\ print_fields = StatedPrinted
           /\ doc.k = "object" /\ doc.cached_at.c = "naive"
           /\ "url" \in DOMAIN doc.body
           /\ \A i \in 1..Len(StatedPrinted) :
                 /\ StatedPrinted[i] \in DOMAIN doc.body
                 /\ i <= Len(lines)
                 /\ lines[i].txt = "json" => doc.body[StatedPrinted[i]] = lines[i].val
                 /\ (lines[i].txt = "null" /\ StatedDefault(StatedPrinted[i]).some) =>
                       doc.body[StatedPrinted[i]] = StatedDefault(StatedPrinted[i]).val

\* C14: every document get_video_info writes to the cache has a duration,
\* and the duration is a number that is not negative, whatever the tool
\* printed on the duration line.
C14_DurationNotNegative ==
    InfoFetched =>
        /\ "duration" \in DOMAIN info.body
        /\ info.body.duration.t = "num"
        /\ info.body.duration.n >= 0

\* The call went on to a fresh fetch and the fetch failed: the tool timed
\* out, exited with a code other than 0, printed fewer than 8 lines, or
\* printed a line that is neither null nor JSON.
InfoFetchFailed ==
    /\ InfoAdmitted /\ last.val.out.runs = 1
    /\ \/ last.val.tool.kind = "timeout"
       \/ /\ last.val.tool.kind = "exit"
          /\ \/ last.val.tool.rc # 0
             \/ Len(strip_split(last.val.tool.stdout)) < InfoLines
             \/ \E i \in 1..InfoLines :
                   strip_split(last.val.tool.stdout)[i].txt \in {"invalid", "empty"}

\* C29: when the fresh fetch of get_video_info fails, the call raises and
\* the info document is as it was before the call, stale, unparsable or
\* absent; the document changes only in a call that returns what it fetched
\* with every field parsed.
C29_FailedFetchKeepsDoc ==
    InfoCalled =>
        /\ InfoFetchFailed =>
              /\ last.val.out = Raise("YouTubeError", 1)
              /\ info = last.val.pre
        /\ info # last.val.pre =>
              /\ last.val.out = Return(info, 1)
              /\ \A i \in 1..InfoLines :
                    strip_split(last.val.tool.stdout)[i].txt \in {"json", "null"}

\* Over a stale document, the tool prints eight lines of which the duration
\* is not JSON: the call raises and the stale document is still there.
C29_Witness ==
    /\ InfoCalled /\ InfoFetchFailed
    /\ last.val.pre.k = "object" /\ last.val.pre.cached_at.c = "naive"
    /\ last.val.tool.kind = "exit" /\ last.val.tool.rc = 0
    /\ Len(strip_split(last.val.tool.stdout)) = InfoLines
    /\ strip_split(last.val.tool.stdout)[4].txt = "invalid"
    /\ last.val.out = Raise("YouTubeError", 1)
    /\ info = last.val.pre

---------------------------------------------------------------------------
(* Claims about the three operations, verified under SpecTimed             *)

OpCalled == last.some
\* The timeouts as the specification gives them, in seconds.
StatedLimit(op) == IF op = "download_vtt" THEN 60 ELSE 30
\* The call gets as far as starting the tool: the URL checks pass, the tool
\* is on the search path, and the cache does not answer the call.
OpReaches ==
    /\ last.val.url.valid /\ last.val.installed
    /\ CASE last.val.op = "list_captions" -> TRUE
         [] last.val.op = "download_vtt" ->
                last.val.url.id.some /\ last.val.pre[last.val.lang] = Absent
         [] OTHER ->
                last.val.url.id.some /\ last.val.pre.k = "absent"
\* The call of get_video_info found a document in the cache.
OpCacheAnswers ==
    /\ last.val.op = "get_video_info" /\ last.val.pre.k # "absent"
    /\ last.val.url.valid /\ last.val.url.id.some /\ last.val.installed
OpTimedOut ==
    last.val.tool.found /\ last.val.tool.seconds > StatedLimit(last.val.op)

\* C17: a call of list_captions, get_video_info or download_vtt starts the
\* tool at most once; when that run exceeds the timeout (30 s for listing
\* and info, 60 s for the subtitle download) the call raises YouTubeError
\* after that one start, and a run within the timeout that exits with code 0
\* does not.
C17_OneRunNoRetry ==
    OpCalled =>
        /\ last.val.out.runs <= 1
        /\ OpReaches => last.val.out.runs = 1
        /\ (~OpReaches /\ ~OpCacheAnswers) => last.val.out.runs = 0
        /\ (OpReaches /\ OpTimedOut) => last.val.out = Raise("YouTubeError", 1)
        /\ (OpReaches /\ last.val.tool.found /\ ~OpTimedOut
              /\ last.val.tool.ends.rc = 0) =>
                 last.val.out # Raise("YouTubeError", 1)

\* A subtitle download whose run takes 90 seconds, and would have written
\* the file, raises YouTubeError after one start and leaves no file.
C17_Witness ==
    /\ OpCalled /\ OpReaches /\ last.val.op = "download_vtt"
    /\ last.val.tool.found /\ last.val.tool.seconds = 90
    /\ last.val.tool.ends.rc = 0 /\ last.val.tool.ends.wrote = "exact"
    /\ last.val.out = Raise("YouTubeError", 1)
    /\ vtt[last.val.lang] = Absent

OpUrlPasses ==
    /\ last.val.url.valid
    /\ last.val.op \in {"download_vtt", "get_video_info"} => last.val.url.id.some

OpCacheHolds ==
    \/ /\ last.val.op = "download_vtt"
       /\ vtt_cached(last.val.pre, last.val.lang)
    \/ /\ last.val.op = "get_video_info"
       /\ read_cache(last.val.pre, last.val.at).kind = "hit"

\* C25: for a URL that passes the URL checks, download_vtt returns the path
\* of the canonical VTT file when that file exists, and get_video_info
\* returns the stored document when it is fresh and parsable, without
\* starting the tool and whether or not the tool is on the search path.
C25_CacheBeforeTool ==
    (OpCalled /\ OpUrlPasses /\ OpCacheHolds) =>
        /\ last.val.op = "download_vtt" =>
              last.val.out = Return(last.val.lang, 0)
        /\ last.val.op = "get_video_info" =>
              last.val.out = Return(last.val.pre, 0)

\* The call that a step completes failed with the exception of an invalid
\* URL or of an absent tool.
StepFailedAs(excs) ==
    /\ last'.some /\ last'.val.out.kind = "raise" /\ last'.val.out.exc \in excs
\* The call that a step completes did not pass the URL checks, or passed
\* them and did not find the tool on the search path.
StepStoppedAtChecks ==
    /\ last'.some
    /\ \/ ~last'.val.url.valid
       \/ last'.val.op \in {"download_vtt", "get_video_info"} /\ ~last'.val.url.id.some
       \/ ~last'.val.installed
\* The step created no directory, wrote and renamed no file, started no
\* process (a launch that finds no executable starts none).
StepChangedNothing ==
    /\ UNCHANGED <<vtt, info, dirExists, pipe>>
    /\ ~(last'.val.out.runs = 1 /\ last'.val.tool.found)

C28_StatedStep ==
    StepFailedAs({"YouTubeURLError", "YTDLPNotFoundError"}) => StepChangedNothing

\* C28 as stated: a call that fails because the URL is invalid or the tool
\* is absent (YouTubeURLError, YTDLPNotFoundError) has changed nothing.
C28_AsStated == [][C28_StatedStep]_vars

\* The call that a step completes passed the checks and tried to launch
\* the tool, and there was no executable to launch.
StepLaunchFoundNothing ==
    /\ last'.some /\ ~StepStoppedAtChecks
    /\ last'.val.out.runs = 1 /\ ~last'.val.tool.found

C28_ChecksStep ==
    /\ StepStoppedAtChecks =>
          /\ StepFailedAs({"YouTubeURLError", "YTDLPNotFoundError"})
          /\ StepChangedNothing
          /\ last'.val.out.runs = 0
    /\ StepLaunchFoundNothing =>
          /\ StepFailedAs({"YTDLPNotFoundError"})
          /\ UNCHANGED <<vtt, info, pipe>>
          /\ dirExists' = IF last'.val.op = "list_captions" THEN dirExists ELSE TRUE

\* C28 (amended): a call that fails at the URL checks, or because the tool
\* is not found on the search path, has changed nothing: no cache directory
\* created, no cache file written or renamed, no launch of the tool tried.
\* A call that passes the checks and then finds no executable to launch
\* fails as for an absent tool with no file changed, but download_vtt and
\* get_video_info have created the cache directory by then.
C28_FrameOfChecks == [][C28_ChecksStep]_vars

\* A download for a valid URL with the tool not on the search path has
\* failed, and there is no cache directory and no file.
C28_Witness ==
    /\ OpCalled /\ last.val.op = "download_vtt" /\ OpUrlPasses
    /\ ~last.val.installed
    /\ last.val.out = Raise("YTDLPNotFoundError", 0)
    /\ ~dirExists /\ \A l \in VttLangs : vtt[l] = Absent /\ info = D_Absent


---------------------------------------------------------------------------
(* Claims about the URL recogniser, verified under SpecUrl                 *)

UrlDone == rec.pc = "done"
\* The identifier is 11 characters over [A-Za-z0-9_-].
UrlIdWellFormed ==
    Len(rec.id) = 11 /\ \A i \in 1..Len(rec.id) : rec.id[i] \in IdChars
\* The string is an identifier embedded in one of the six supported shapes,
\* with or without scheme, with or without a trailing query or fragment.
UrlSupported ==
    /\ rec.kind = "supported" /\ UrlIdWellFormed
    /\ rec.tail \in {"none", "query", "fragment"}
\* The string matches none of the known YouTube URL shapes: a URL of another
\* host, a YouTube URL of no video, or an identifier that is not 11
\* characters long.
UrlUnknown ==
    \/ rec.kind \in {"other_host", "no_video"}
    \/ ~UrlIdWellFormed /\ rec.tail # "slash"

\* C19: for an 11-character identifier embedded in one of the six supported
\* shapes extract_video_id returns exactly that identifier; for a string
\* that matches none of the known shapes, URLs of other hosts included, it
\* returns none.
C19_ExtractExactly ==
    UrlDone =>
        /\ UrlSupported => rec.video_id = Some(rec.id)
        /\ UrlUnknown => rec.video_id = None

\* C20: every URL that validate_youtube_url accepts yields an identifier
\* from extract_video_id, so that download_vtt and get_video_info do not
\* raise YouTubeURLError for a URL that passed validation.
C20_ValidatorAgrees ==
    UrlDone =>
        /\ rec.valid => rec.video_id.some
        /\ (last.some /\ rec.valid) => last.val.out # Raise("YouTubeURLError", 0)


\* C21: in every supported shape extract_video_id returns none when the
\* identifier segment is shorter or longer than 11 characters, and a result
\* that is not none is the whole segment, 11 characters of [A-Za-z0-9_-],
\* never the first 11 characters of a longer segment.
C21_NeverTruncated ==
    (UrlDone /\ rec.kind = "supported" /\ rec.tail # "slash") =>
        /\ Len(rec.id) # 11 => rec.video_id = None
        /\ rec.video_id.some =>
              /\ rec.video_id.val = rec.id
              /\ Len(rec.video_id.val) = 11
              /\ \A i \in 1..Len(rec.video_id.val) : rec.video_id.val[i] \in IdChars


---------------------------------------------------------------------------
(* Claims about concurrent calls, verified under SpecRace                  *)

RaceBothDone == \A p \in Callers : race.calls[p].pc = "done"
\* Both calls missed the cache: each fetched a document of its own.
RaceBothMissed == \A p \in Callers : race.calls[p].text.some

\* C23: when two concurrent get_video_info calls for one video id both miss
\* the cache, then after both have finished info.json holds exactly the
\* complete document one of them wrote, not a mixture and not a truncated
\* document, and each call has returned the document it fetched itself.
C23_LastWriterWins ==
    (RaceBothDone /\ RaceBothMissed) =>
        /\ \E p \in Callers : race.file = race.calls[p].text
        /\ \A p \in Callers : race.calls[p].ret = race.calls[p].text


---------------------------------------------------------------------------
(* Claims about write_text, verified under SpecWrite                       *)

WrCalled == wr.call.some
\* A regular file was at the path before the call.
WrExisted == wr.call.val.pre.is = "file"
WrUnchanged == wr.entry = wr.call.val.pre
\* Nothing but the overwrite question stands between the call and the
\* write: content, path and parent directory are accepted.
WrAccepted ==
    /\ wr.call.val.content.form # "empty" /\ ~wr.call.val.path.traversal
    /\ wr.parent = "exists"

\* C24: write_text replaces the content of an existing file only when force
\* is true or the user confirmed the prompt; with force false and the prompt
\* declined it raises typer.Abort and the file is as before; with force true
\* it does not prompt, and writes.
C24_NoSilentOverwrite ==
    WrCalled =>
        /\ (WrExisted /\ ~WrUnchanged) =>
              \/ wr.call.val.force
              \/ wr.call.val.prompted /\ wr.call.val.answer
        /\ (WrExisted /\ WrAccepted /\ ~wr.call.val.force /\ ~wr.call.val.answer) =>
              /\ wr.call.val.out = Raise("Abort", 0)
              /\ wr.call.val.prompted
              /\ WrUnchanged
        /\ wr.call.val.force => ~wr.call.val.prompted
        /\ (WrExisted /\ WrAccepted /\ wr.call.val.force /\ wr.call.val.writable) =>
              /\ wr.call.val.out.kind = "return"
              /\ wr.entry = RegularFile(text_to_write(wr.call.val.path,
                                                      wr.call.val.content))

\* A call with other content for an existing file, force false, the prompt
\* declined: typer.Abort, and the file holds what it held.
C24_Witness ==
    /\ WrCalled /\ WrExisted /\ WrAccepted
    /\ ~wr.call.val.force /\ ~wr.call.val.answer /\ wr.call.val.writable
    /\ wr.call.val.content # wr.call.val.pre.content
    /\ wr.call.val.out = Raise("Abort", 0)
    /\ WrUnchanged

---------------------------------------------------------------------------
(* Claims about sanitize_filename, verified under SpecSan                  *)

\* C27: the result of sanitize_filename holds none of < > : " / \ | ? *, is
\* at most 200 characters long, and neither begins nor ends with a space or
\* a dot, also when the title was truncated.
C27_SafeName ==
    san.pc = "done" =>
        /\ \A i \in 1..Len(san.result) : san.result[i] \notin invalid_chars
        /\ Len(san.result) <= max_length
        /\ san.result # <<>> =>
              /\ san.result[1] \notin {" ", "."}
              /\ san.result[Len(san.result)] \notin {" ", "."}

---------------------------------------------------------------------------
(* Claims about transcribe_from_clipboard, verified under SpecPipe         *)

\* The call has returned the emitted segments in order, or has raised
\* RuntimeError.
PipeFinished ==
    \/ pipe.pc = "returned" /\ pipe.segments = Emitted(pipe.script)
    \/ pipe.pc = "raised" /\ pipe.exc = "RuntimeError"

\* Every line the helper writes to stdout is a JSON segment or blank.
HelperWritesJsonLines ==
    \A i \in 1..Len(pipe.script) : pipe.script[i] # "junk"

\* C30: for every helper that writes a finite amount to stdout (JSON lines)
\* and stderr and then exits, transcribe_from_clipboard terminates, by
\* returning the segments in the order the helper emitted them or by raising
\* RuntimeError; reading stdout to end-of-file before stderr does not
\* deadlock.
C30_Terminates == HelperWritesJsonLines => <>PipeFinished

=============================================================================
